---- MODULE Spec2Model ----
(***************************************************************************)
(* A model of synapse-docs' document pipeline: the embedding generator     *)
(* (backend/app/services/embedding_service.py), the vector index and the   *)
(* search endpoint that uses it (backend/app/api/v1/endpoints/search.py),  *)
(* the chunk builder and the heading classifier of the parser              *)
(* (backend/app/services/document_parser.py), the background task and the  *)
(* deletion of documents (backend/app/api/v1/endpoints/documents.py), and  *)
(* the first uses of the shared services by threads                        *)
(* (backend/app/services/shared.py).                                       *)
(*                                                                         *)
(* Texts are sequences of code points; 32 is the space character.          *)
(* Vectors are abstract: the model's encoding of a preprocessed text is    *)
(* the record Enc(text), the placeholder [0.0] * 384 is ZeroVec and the    *)
(* empty list [] returned after an exception is EmptyVec.  The sentence    *)
(* transformer normalises its output, so no encoding is the zero vector.   *)
(***************************************************************************)
EXTENDS Integers, Sequences, FiniteSets, TLC

VARIABLES
    model_loaded,       \* EmbeddingService.model is not None
    embedding_cache,    \* EmbeddingService.embedding_cache, in insertion order
    last,               \* the call that has just returned, with its result
    watched,            \* the text whose create_embedding results are recorded
    first_vec,          \* what the first create_embedding(watched) returned
    documents,          \* the Document rows: the status of each document id
    chunks,             \* the TextChunk rows, by chunk id
    faiss_index,        \* the entries of the vector index in memory, by position
    faiss_disk,         \* the persisted form of the vector index
    removed,            \* the positions handed to remove_embeddings so far
    response,           \* the request answered last, with its response
    shared,             \* the globals of shared.py and of class EmbeddingService
    threads             \* where each thread is in the code, with its locals

embed_vars == <<model_loaded, embedding_cache, last, watched, first_vec>>

index_vars == <<documents, chunks, faiss_index, faiss_disk, removed, response>>

thread_vars == <<shared, threads>>

vars == <<model_loaded, embedding_cache, last, watched, first_vec,
          documents, chunks, faiss_index, faiss_disk, removed, response,
          shared, threads>>

----------------------------------------------------------------------------
(* Bounds of the model.                                                    *)

\* the largest batch handed to create_embeddings_batch
MaxBatch == 170
\* the batch of the 120-chunks scenario
ScenarioBatch == 120
\* the longest of the small batches (at most large_batch_threshold texts)
MaxSmallBatch == 2
\* the number of ways the texts of a large batch are laid out
MaxShift == 3
\* the number of sub-batches of one call whose encoding may fail
MaxFailures == 1

(* Program constants.                                                      *)
cache_max_size == 10000
evict_count == 100
large_batch_threshold == 100
sub_batch_size == 50
embedding_dim == 384
max_length == 512

----------------------------------------------------------------------------
(* Texts.                                                                  *)

SP == 32

\* the texts the calls are made with: "a", " ", " b"
TextList == << <<97>>, <<SP>>, <<SP, 98>> >>

Texts == { TextList[i] : i \in 1..Len(TextList) }

RECURSIVE Words(_, _, _)
\* str.split(): the maximal runs of non-space characters of text[i..]
Words(text, i, cur) ==
    IF i > Len(text)
    THEN IF cur = <<>> THEN <<>> ELSE <<cur>>
    ELSE IF text[i] = SP
         THEN IF cur = <<>> THEN Words(text, i + 1, <<>>)
                            ELSE <<cur>> \o Words(text, i + 1, <<>>)
         ELSE Words(text, i + 1, Append(cur, text[i]))

RECURSIVE Join(_)
\* ' '.join(words)
Join(ws) ==
    IF ws = <<>> THEN <<>>
    ELSE IF Len(ws) = 1 THEN ws[1]
    ELSE ws[1] \o <<SP>> \o Join(Tail(ws))

\* EmbeddingService._preprocess_text
preprocess_text(text) ==
    IF text = <<>> THEN <<>>
    ELSE LET ws == Words(text, 1, <<>>)
         IN  IF Len(ws) > max_length
             THEN Join(SubSeq(ws, 1, max_length))
             ELSE Join(ws)

\* EmbeddingService._get_text_hash: md5 of the text, taken as injective
get_text_hash(text) == text

----------------------------------------------------------------------------
(* Vectors.                                                                *)

ZeroVec  == [kind |-> "zero", dim |-> embedding_dim, src |-> <<>>]
EmptyVec == [kind |-> "empty", dim |-> 0, src |-> <<>>]
\* model.encode(processed).tolist()
Enc(processed) == [kind |-> "enc", dim |-> embedding_dim, src |-> processed]

----------------------------------------------------------------------------
(* The cache: a Python dict, i.e. its entries in insertion order with       *)
(* distinct keys.  It is kept run-length encoded: an item is either the     *)
(* entry of one of Texts, [key, val, n |-> 1], or a run of n >= 1           *)
(* consecutive entries of other texts, which no call of the model looks up, *)
(* [key |-> <<>>, val |-> NoVec, n |-> n, other |-> TRUE].                  *)

NoVec == [kind |-> "none", dim |-> 0, src |-> <<>>]

Entry(h, v) == [key |-> h, val |-> v, n |-> 1, other |-> FALSE]

Others(n) == [key |-> <<>>, val |-> NoVec, n |-> n, other |-> TRUE]

RECURSIVE CacheLen(_)
\* len(self.embedding_cache)
CacheLen(cache) ==
    IF cache = <<>> THEN 0 ELSE Head(cache).n + CacheLen(Tail(cache))

CacheKeys(cache) == { cache[i].key : i \in { j \in 1..Len(cache) : ~cache[j].other } }

CacheIndex(cache, h) ==
    CHOOSE i \in 1..Len(cache) : ~cache[i].other /\ cache[i].key = h

CacheGet(cache, h) == cache[CacheIndex(cache, h)].val

\* cache[h] = v: an existing key keeps its place
CachePut(cache, h, v) ==
    IF h \in CacheKeys(cache)
    THEN [cache EXCEPT ![CacheIndex(cache, h)].val = v]
    ELSE Append(cache, Entry(h, v))

RECURSIVE DropFirst(_, _)
\* the cache without its first m entries (all of them when it has fewer)
DropFirst(cache, m) ==
    IF m = 0 \/ cache = <<>> THEN cache
    ELSE IF Head(cache).n <= m THEN DropFirst(Tail(cache), m - Head(cache).n)
    ELSE <<[Head(cache) EXCEPT !.n = @ - m]>> \o Tail(cache)

\* the oldest entries are dropped only once the cache is over its cap
cache_embedding_late(cache, h, v) ==
    CachePut(IF CacheLen(cache) > cache_max_size
             THEN DropFirst(cache, evict_count)
             ELSE cache,
             h, v)

\* EmbeddingService._cache_embedding
cache_embedding(cache, h, v) ==
    CachePut(IF CacheLen(cache) >= cache_max_size
             THEN DropFirst(cache, evict_count)
             ELSE cache,
             h, v)

----------------------------------------------------------------------------
(* EmbeddingService.create_embedding.  fail: model.encode raises.  The      *)
(* value is [ret, cache, encoded]: the returned vector, the cache after the *)
(* call, and whether model.encode was called.                               *)

create_embedding(loaded, cache, text, fail) ==
    IF ~loaded
    THEN [ret |-> ZeroVec, cache |-> cache, encoded |-> FALSE]
    ELSE LET text_hash == get_text_hash(text)
             processed == preprocess_text(text)
         IN  IF text_hash \in CacheKeys(cache)
             THEN [ret |-> CacheGet(cache, text_hash), cache |-> cache, encoded |-> FALSE]
             ELSE IF Words(processed, 1, <<>>) = <<>>
             THEN [ret |-> ZeroVec, cache |-> cache, encoded |-> FALSE]
             ELSE IF fail
             THEN [ret |-> EmptyVec, cache |-> cache, encoded |-> TRUE]
             ELSE [ret |-> Enc(processed),
                   cache |-> cache_embedding(cache, text_hash, Enc(processed)),
                   encoded |-> TRUE]

----------------------------------------------------------------------------
(* EmbeddingService._process_embedding_batch.  The value is                 *)
(* [ret, cache, failed]; ret = <<>> is the [] returned after an exception.  *)

\* y, with x evaluated first: TLC passes arguments unevaluated, and a chain
\* of a hundred pending cache updates overflows its stack
Eager(x, y) == IF x = x THEN y ELSE y

\* F(v), with v evaluated once, before F is applied to it
Strict(v, F(_)) == CHOOSE y \in { F(x) : x \in {v} } : TRUE

RECURSIVE CacheAll(_, _, _)
\* the loop over zip(uncached_indices, batch_embeddings)
CacheAll(cache, texts, idxs) ==
    IF idxs = <<>> THEN cache
    ELSE LET cached == cache_embedding(cache, get_text_hash(texts[Head(idxs)]),
                                       Enc(preprocess_text(texts[Head(idxs)])))
         IN  Eager(cached, CacheAll(cached, texts, Tail(idxs)))

process_embedding_batch(cache, texts, fail) ==
    LET keys == CacheKeys(cache)
        IsHit(i) == get_text_hash(texts[i]) \in keys
        uncached_indices == SelectSeq([i \in 1..Len(texts) |-> i], LAMBDA i : ~IsHit(i))
    IN  IF uncached_indices # <<>> /\ fail
        THEN [ret |-> <<>>, cache |-> cache, failed |-> TRUE]
        ELSE [ret |-> [i \in 1..Len(texts) |->
                          IF IsHit(i) THEN CacheGet(cache, get_text_hash(texts[i]))
                          ELSE Enc(preprocess_text(texts[i]))],
              cache |-> CacheAll(cache, texts, uncached_indices),
              failed |-> FALSE]

----------------------------------------------------------------------------
(* EmbeddingService.create_embeddings_batch.  fails: the sub-batches        *)
(* (numbered from 1) whose model.encode call raises.  The value is          *)
(* [ret, cache, failed, sizes]: the vectors, the cache after the call, the  *)
(* sub-batches that returned [], and the length of each sub-batch handed to *)
(* _process_embedding_batch, in order.                                      *)

Min(a, b) == IF a < b THEN a ELSE b

\* a failed sub-batch contributes nothing
ZerosDropped(n) == <<>>

\* [[0.0] * 384 for _ in sub_batch]
Zeros(n) == [i \in 1..n |-> ZeroVec]

RECURSIVE SubBatchesPrepended(_, _, _, _, _)
\* SubBatches, each sub-batch's vectors put in front of the earlier ones
SubBatchesPrepended(acc, texts, k, fails, step) ==
    LET i == (k - 1) * step
    IN  IF i >= Len(texts) THEN acc
        ELSE LET sub_batch == SubSeq(texts, i + 1, Min(i + step, Len(texts)))
                 r == process_embedding_batch(acc.cache, sub_batch, k \in fails)
                 all == [ret    |-> (IF r.ret # <<>> THEN r.ret
                                     ELSE Zeros(Len(sub_batch))) \o acc.ret,
                         cache  |-> r.cache,
                         failed |-> IF r.failed THEN acc.failed \cup {k} ELSE acc.failed,
                         sizes  |-> Append(acc.sizes, Len(sub_batch))]
             IN  Eager(all, SubBatchesPrepended(all, texts, k + 1, fails, step))

RECURSIVE SubBatches(_, _, _, _, _)
\* for i in range(0, len(texts), sub_batch_size), from sub-batch k on
SubBatches(acc, texts, k, fails, step) ==
    LET i == (k - 1) * step
    IN  IF i >= Len(texts) THEN acc
        ELSE LET sub_batch == SubSeq(texts, i + 1, Min(i + step, Len(texts)))
                 r == process_embedding_batch(acc.cache, sub_batch, k \in fails)
                 all == [ret    |-> acc.ret \o (IF r.ret # <<>> THEN r.ret
                                                ELSE Zeros(Len(sub_batch))),
                         cache  |-> r.cache,
                         failed |-> IF r.failed THEN acc.failed \cup {k} ELSE acc.failed,
                         sizes  |-> Append(acc.sizes, Len(sub_batch))]
             IN  Eager(all, SubBatches(all, texts, k + 1, fails, step))

create_embeddings_batch(loaded, cache, texts, fails) ==
    IF ~loaded
    THEN [ret |-> Zeros(Len(texts)), cache |-> cache, failed |-> {}, sizes |-> <<>>]
    ELSE IF Len(texts) > large_batch_threshold
    THEN SubBatches([ret |-> <<>>, cache |-> cache, failed |-> {}, sizes |-> <<>>],
                    texts, 1, fails, sub_batch_size)
    ELSE LET r == process_embedding_batch(cache, texts, 1 \in fails)
         IN  [ret |-> r.ret, cache |-> r.cache,
              failed |-> IF r.failed THEN {1} ELSE {},
              sizes |-> <<Len(texts)>>]

----------------------------------------------------------------------------
(* The embedding service as a state machine: the cache and the calls.      *)

NoCall == [op |-> "none", text |-> <<>>, texts |-> <<>>, loaded |-> FALSE,
           ret |-> NoVec, rets |-> <<>>, failed |-> {}, sizes |-> <<>>,
           hit |-> FALSE]

\* a cache of the given size that the service has built: the texts of
\* prefix were embedded first, other texts after them
FilledCache(prefix, size) ==
    [i \in 1..Len(prefix) |->
        Entry(get_text_hash(prefix[i]), Enc(preprocess_text(prefix[i])))]
    \o <<Others(size - Len(prefix))>>

\* " " enters the cache through create_embeddings_batch only
InitPrefixes == { <<>>, << <<97>> >>, << <<SP>>, <<97>> >> }

InitCaches ==
    { <<>> } \cup { FilledCache(p, n) : p \in InitPrefixes,
                                        n \in {cache_max_size - 1, cache_max_size} }

\* the batches of at most large_batch_threshold texts
SmallBatches == UNION { [1..n -> Texts] : n \in 0..MaxSmallBatch }

\* a batch of n texts: the texts of TextList in rotation, from the k-th on
BatchTexts(n, k) == [i \in 1..n |-> TextList[((i + k) % Len(TextList)) + 1]]

\* the sizes of the large batches
LargeSizes == { large_batch_threshold + 1, ScenarioBatch, MaxBatch }

LargeBatches == { BatchTexts(n, k) : n \in LargeSizes, k \in 0..(MaxShift - 1) }

\* the number of sub-batches of a batch of n texts
NumSub(n) == (n + sub_batch_size - 1) \div sub_batch_size

\* the sub-batches of a batch of n texts whose encoding fails
FailSets(n) == { f \in SUBSET (1..NumSub(n)) : Cardinality(f) <= MaxFailures }

\* the threads of the process
MaxThreads == 2

Threads == 1..MaxThreads

\* None
NoObject == 0

\* a thread that has not been started
IdleThread ==
    [pc |-> "idle", role |-> "none", self |-> NoObject, service |-> NoObject,
     cache |-> 0, texts |-> <<>>]

\* shared.py and embedding_service.py as imported: no instance, nothing
\* initialized, the lock free.  objects holds the EmbeddingService objects
\* created, [model, cache], cache being the number of the dict in dicts (0:
\* no such attribute yet); dicts holds the keys of each cache dict created;
\* loads counts the SentenceTransformer(model_name) calls.
InitShared ==
    [instance |-> NoObject, initialized |-> FALSE,
     embedding_service |-> NoObject, services_initialized |-> FALSE,
     initialization_lock |-> 0, background |-> FALSE,
     objects |-> <<>>, dicts |-> <<>>, loads |-> 0]

\* no thread has been started
ThreadsIdle ==
    /\ shared = InitShared
    /\ threads = [t \in Threads |-> IdleThread]

\* no document, no chunk, an empty index and no request: the rest of the
\* program while only the embedding service is exercised
NoResponse == [op |-> "none"]

IndexIdle ==
    /\ documents = <<>>
    /\ chunks = <<>>
    /\ faiss_index = <<>>
    /\ faiss_disk = [vectors |-> <<>>, metadata |-> {}]
    /\ removed = {}
    /\ response = NoResponse

InitEmbed ==
    /\ model_loaded \in BOOLEAN
    /\ embedding_cache \in (IF model_loaded THEN InitCaches ELSE { <<>> })
    /\ last = NoCall
    /\ watched \in Texts
    /\ first_vec = NoVec
    /\ IndexIdle
    /\ ThreadsIdle

\* a request calls create_embedding(text)
CreateEmbedding ==
    \E text \in Texts, fail \in BOOLEAN :
        LET r == create_embedding(model_loaded, embedding_cache, text, fail)
        IN  /\ embedding_cache' = r.cache
            /\ last' = [NoCall EXCEPT !.op = "create", !.text = text,
                                      !.loaded = model_loaded, !.ret = r.ret,
                                      !.hit = get_text_hash(text) \in CacheKeys(embedding_cache)]
            /\ first_vec' = IF text = watched /\ first_vec = NoVec /\ r.ret # EmptyVec
                            THEN r.ret ELSE first_vec
            /\ UNCHANGED <<model_loaded, watched>>
            /\ UNCHANGED <<thread_vars, index_vars>>

\* a request calls create_embeddings_batch(texts) with the given texts
BatchCall(texts) ==
    \E fails \in FailSets(Len(texts)) :
        LET r == create_embeddings_batch(model_loaded, embedding_cache, texts, fails)
        IN  /\ embedding_cache' = r.cache
            /\ last' = [NoCall EXCEPT !.op = "batch", !.texts = texts,
                                      !.loaded = model_loaded, !.rets = r.ret,
                                      !.failed = r.failed, !.sizes = r.sizes]
            /\ UNCHANGED <<model_loaded, watched, first_vec>>
            /\ UNCHANGED <<thread_vars, index_vars>>

\* create_embeddings_batch on at most large_batch_threshold texts
CreateEmbeddingsBatch == \E texts \in SmallBatches : BatchCall(texts)

NextEmbed == CreateEmbedding \/ CreateEmbeddingsBatch

\* the embedding service under any sequence of calls
SpecEmbed == InitEmbed /\ [][NextEmbed]_vars

----------------------------------------------------------------------------
(* One call of create_embeddings_batch on more than large_batch_threshold  *)
(* texts, from every cache of InitCaches.                                  *)

InitBatch ==
    /\ model_loaded \in BOOLEAN
    /\ embedding_cache \in (IF model_loaded THEN InitCaches ELSE { <<>> })
    /\ last = NoCall
    /\ watched = TextList[1]
    /\ first_vec = NoVec
    /\ IndexIdle
    /\ ThreadsIdle

CreateEmbeddingsLargeBatch ==
    /\ last.op = "none"
    /\ \E texts \in LargeBatches : BatchCall(texts)

NextBatch == CreateEmbeddingsLargeBatch

SpecBatch == InitBatch /\ [][NextBatch]_vars

----------------------------------------------------------------------------
(* Claims about the embedding generator.                                   *)

\* the sub-batch (numbered from 1) that holds the i-th text of a large batch
SubBatchOf(i) == ((i - 1) \div 50) + 1

RECURSIVE Sum(_)
Sum(q) == IF q = <<>> THEN 0 ELSE Head(q) + Sum(Tail(q))

\* a call of create_embeddings_batch on more than 100 texts has returned
LargeBatchReturned == last.op = "batch" /\ Len(last.texts) > 100

(* C1: once create_embedding(text) has returned a vector, every later      *)
(* create_embedding(text) returns that same vector, whatever calls of       *)
(* create_embedding and create_embeddings_batch come in between.            *)
C1_SameVectorOnEveryLaterCall ==
    (last.op = "create" /\ last.text = watched /\ first_vec # NoVec)
        => last.ret = first_vec

(* C2: for N > 100 texts create_embeddings_batch hands consecutive          *)
(* sub-batches of 50 texts to the model, the last one holding the           *)
(* remainder, and returns N vectors, the i-th being the embedding of the    *)
(* i-th text (of every sub-batch whose encoding succeeded).                 *)
C2_LargeBatchSplitInOrder ==
    LargeBatchReturned =>
        LET n == Len(last.texts)
        IN  /\ Len(last.rets) = n
            /\ last.loaded =>
                 /\ Sum(last.sizes) = n
                 /\ \A k \in 1..Len(last.sizes) :
                       IF k < Len(last.sizes) THEN last.sizes[k] = 50
                       ELSE last.sizes[k] \in 1..50
                 /\ \A i \in 1..n :
                       SubBatchOf(i) \notin last.failed
                           => last.rets[i] = Enc(preprocess_text(last.texts[i]))

\* the 120 texts of the scenario went through as 50 + 50 + 20
C2_Witness ==
    /\ LargeBatchReturned /\ last.loaded
    /\ Len(last.texts) = 120 /\ last.sizes = <<50, 50, 20>>
    /\ last.failed = {}
    /\ \E i, j \in 1..120 : last.rets[i] # last.rets[j]

(* C3: when the encoding of a sub-batch fails, create_embeddings_batch      *)
(* still returns one vector per text: zero vectors of dimension 384 at the  *)
(* indices of the failed sub-batch, and at every other index the vector     *)
(* the text has when nothing fails.                                         *)
C3_FailedSubBatchZeroFilled ==
    (LargeBatchReturned /\ last.loaded) =>
        /\ DOMAIN last.rets = 1..Len(last.texts)
        /\ \A i \in 1..Len(last.texts) :
              IF SubBatchOf(i) \in last.failed
              THEN last.rets[i].kind = "zero" /\ last.rets[i].dim = 384
              ELSE last.rets[i].kind = "enc"
                   /\ last.rets[i].src = preprocess_text(last.texts[i])

\* a sub-batch failed and another one did not
C3_Witness ==
    /\ LargeBatchReturned /\ last.loaded
    /\ last.failed # {}
    /\ \E i, j \in 1..Len(last.texts) :
          /\ SubBatchOf(i) \in last.failed /\ last.rets[i] = ZeroVec
          /\ SubBatchOf(j) \notin last.failed /\ last.rets[j].kind = "enc"

----------------------------------------------------------------------------
(* Similarity.  Scores and thresholds are in hundredths.                   *)

\* the preprocessed texts the model encodes: "a", "b" and ""
EncodedTexts == << <<97>>, <<98>>, <<>> >>

TextNo(src) == CHOOSE i \in 1..Len(EncodedTexts) : EncodedTexts[i] = src

\* the cosines of the angles between the encodings of "a", "b" and "":
\* three unit vectors with pairwise cosines 0.85, 0.20 and -0.10
CosineTable == << <<100, 85, 20>>, <<85, 100, -10>>, <<20, -10, 100>> >>

\* the cosine similarity of two vectors; 0 when one of them has norm 0
cosine_similarity(a, b) ==
    IF a.kind # "enc" \/ b.kind # "enc" THEN 0
    ELSE CosineTable[TextNo(a.src)][TextNo(b.src)]

calculate_similarities(query_embedding, chunk_embeddings) ==
    [i \in 1..Len(chunk_embeddings) |->
        cosine_similarity(query_embedding, chunk_embeddings[i])]

----------------------------------------------------------------------------
(* The vector index (FaissService).  The entry at position p, counted from *)
(* 0, is faiss_index[p + 1]; a removed entry stays as a tombstone, so that *)
(* positions are stable and never handed out twice.                        *)

NoMeta == [chunk_id |-> 0, document_id |-> 0, chunk_index |-> 0]

IndexEntry(v, m) == [vector |-> v, metadata |-> m, live |-> TRUE]

Positions(index) == 0..(Len(index) - 1)

LivePositions(index) == { p \in Positions(index) : index[p + 1].live }

\* the removed entries are left out of the persisted vectors
persist_index_compacted(index) ==
    LET live == SelectSeq([i \in 1..Len(index) |-> i], LAMBDA i : index[i].live)
    IN  [vectors  |-> [n \in 1..Len(live) |-> index[live[n]].vector],
         metadata |-> { [position |-> p, metadata |-> index[p + 1].metadata] :
                            p \in LivePositions(index) }]

\* the persisted form: the vectors of all positions, and the metadata of
\* the positions that are not removed
persist_index(index) ==
    [vectors  |-> [i \in 1..Len(index) |-> index[i].vector],
     metadata |-> { [position |-> p, metadata |-> index[p + 1].metadata] :
                        p \in LivePositions(index) }]

reload_index(disk) ==
    [i \in 1..Len(disk.vectors) |->
        LET ms == { e \in disk.metadata : e.position = i - 1 }
        IN  IF ms = {}
            THEN [vector |-> disk.vectors[i], metadata |-> NoMeta, live |-> FALSE]
            ELSE IndexEntry(disk.vectors[i], (CHOOSE e \in ms : TRUE).metadata)]

\* the vectors that have a metadata entry are added, whatever the lengths
add_embeddings_partial(index, vectors, metadata) ==
    LET n == Min(Len(vectors), Len(metadata))
    IN  [ok |-> Len(vectors) = Len(metadata),
         positions |-> [i \in 1..n |-> Len(index) + i - 1],
         index |-> index \o [i \in 1..n |-> IndexEntry(vectors[i], metadata[i])]]

\* add(vectors, metadata): appends, or fails and changes nothing
add_embeddings(index, vectors, metadata) ==
    IF \/ Len(vectors) # Len(metadata)
       \/ \E i \in 1..Len(vectors) : vectors[i].dim # embedding_dim
    THEN [ok |-> FALSE, positions |-> <<>>, index |-> index]
    ELSE [ok |-> TRUE,
          positions |-> [i \in 1..Len(vectors) |-> Len(index) + i - 1],
          index |-> index \o [i \in 1..Len(vectors) |->
                                 IndexEntry(vectors[i], metadata[i])]]

\* only the first of the positions is removed
remove_embeddings_first(index, positions) ==
    [i \in 1..Len(index) |->
        IF (i - 1) \in positions /\ \A p \in positions : i - 1 <= p
        THEN [index[i] EXCEPT !.metadata = NoMeta, !.live = FALSE]
        ELSE index[i]]

remove_embeddings(index, positions) ==
    [i \in 1..Len(index) |->
        IF (i - 1) \in positions
        THEN [index[i] EXCEPT !.metadata = NoMeta, !.live = FALSE]
        ELSE index[i]]

get_embedding_by_position(index, p) ==
    IF p \in LivePositions(index)
    THEN [found |-> TRUE, vector |-> index[p + 1].vector,
          metadata |-> index[p + 1].metadata]
    ELSE [found |-> FALSE, vector |-> NoVec, metadata |-> NoMeta]

\* the similarity of q to the entry of every position
Similarities(index, q) ==
    [i \in 1..Len(index) |-> cosine_similarity(q, index[i].vector)]

\* the entries of cand in the order of the ranking: by similarity, the
\* higher first, entries of equal similarity by position, the earlier first;
\* sims[p + 1] is the similarity of the entry at position p
RECURSIVE Ranked(_, _, _)
Ranked(index, sims, cand) ==
    IF cand = {} THEN <<>>
    ELSE LET best == CHOOSE p \in cand :
                        \A r \in cand : \/ sims[p + 1] > sims[r + 1]
                                        \/ sims[p + 1] = sims[r + 1] /\ p <= r
         IN  << [faiss_index_position |-> best,
                 similarity_score |-> sims[best + 1],
                 metadata |-> index[best + 1].metadata] >>
             \o Ranked(index, sims, cand \ {best})

\* one entry more than top_k is returned
faiss_search_one_more(index, q, top_k, similarity_threshold) ==
    Strict(Similarities(index, q), LAMBDA sims :
        LET cand == { p \in LivePositions(index) :
                        sims[p + 1] >= similarity_threshold }
            all == Ranked(index, sims, cand)
        IN  SubSeq(all, 1, Min(top_k + 1, Len(all))))

\* search(query_vector, top_k, similarity_threshold)
faiss_search(index, q, top_k, similarity_threshold) ==
    Strict(Similarities(index, q), LAMBDA sims :
        LET cand == { p \in LivePositions(index) :
                        sims[p + 1] >= similarity_threshold }
            all == Ranked(index, sims, cand)
        IN  SubSeq(all, 1, Min(top_k, Len(all))))

----------------------------------------------------------------------------
(* The database: Document and TextChunk rows (crud_document.py).  The rows *)
(* of chunks are kept by id; the row of a deleted chunk is NoChunk.        *)

\* the number of documents
MaxDocs == 2

DocIds == 1..MaxDocs

NoPosition == -1

NoChunk == [document_id |-> 0, text_chunk |-> <<>>, chunk_type |-> "none",
            chunk_index |-> 0, faiss_index_position |-> NoPosition,
            present |-> FALSE]

ChunkIds(rows) == { id \in 1..Len(rows) : rows[id].present }

RECURSIVE TrimRows(_)
\* SQLite numbers a new row one above the highest id in use
TrimRows(rows) ==
    IF rows # <<>> /\ ~rows[Len(rows)].present
    THEN TrimRows(SubSeq(rows, 1, Len(rows) - 1))
    ELSE rows

create_text_chunk(rows, document_id, chunk_data, chunk_index) ==
    Append(rows, [document_id |-> document_id,
                  text_chunk |-> chunk_data.text_chunk,
                  chunk_type |-> chunk_data.chunk_type,
                  chunk_index |-> chunk_index,
                  faiss_index_position |-> NoPosition,
                  present |-> TRUE])

update_chunk_faiss_position(rows, chunk_id, faiss_position) ==
    IF chunk_id \in ChunkIds(rows)
    THEN [rows EXCEPT ![chunk_id].faiss_index_position = faiss_position]
    ELSE rows

update_document_status(docs, document_id, status) ==
    IF docs[document_id].status # "deleted"
    THEN [docs EXCEPT ![document_id].status = status]
    ELSE docs

\* delete_document: the chunks of the document, then the document
delete_document_rows(rows, document_id) ==
    TrimRows([id \in 1..Len(rows) |->
                 IF rows[id].present /\ rows[id].document_id = document_id
                 THEN NoChunk ELSE rows[id]])

get_text_chunks_by_faiss_positions(rows, faiss_positions) ==
    { id \in ChunkIds(rows) : rows[id].faiss_index_position \in faiss_positions }

----------------------------------------------------------------------------
(* process_document_background.  parsed is the outcome of get_text_chunks: *)
(* it raised, or it returned parsed.chunks; rejected holds the places of   *)
(* the chunks whose row cannot be created; fails holds the batches of      *)
(* EMBEDDING_BATCH_SIZE chunks whose encoding fails; unstored holds the    *)
(* places of the chunks whose position cannot be written.  The value is    *)
(* [status, chunks, cache, index]: the status the document is given and    *)
(* the state after the task.                                               *)

EMBEDDING_BATCH_SIZE == 32

RECURSIVE StoreChunks(_, _, _, _, _, _)
\* step 2: one row per chunk, the rejected ones skipped; ids lists chunk_objects
StoreChunks(rows, ids, document_id, text_chunks, i, rejected) ==
    IF i > Len(text_chunks) THEN [rows |-> rows, ids |-> ids]
    ELSE IF i \in rejected
    THEN StoreChunks(rows, ids, document_id, text_chunks, i + 1, rejected)
    ELSE Strict(create_text_chunk(rows, document_id, text_chunks[i], i - 1),
                LAMBDA stored :
                    StoreChunks(stored, Append(ids, Len(stored)), document_id,
                                text_chunks, i + 1, rejected))

RECURSIVE EmbedChunks(_, _, _, _, _, _)
\* step 3: create_embeddings_batch on each batch of texts, from batch b on
EmbedChunks(loaded, cache, texts, b, fails, acc) ==
    LET start_idx == (b - 1) * EMBEDDING_BATCH_SIZE
        end_idx == Min(b * EMBEDDING_BATCH_SIZE, Len(texts))
    IN  IF start_idx >= Len(texts)
        THEN [ok |-> TRUE, embeddings |-> acc, cache |-> cache]
        ELSE Strict(create_embeddings_batch(loaded, cache,
                        SubSeq(texts, start_idx + 1, end_idx),
                        IF b \in fails THEN {1} ELSE {}),
                    LAMBDA r :
                        IF r.ret # <<>> /\ Len(r.ret) = end_idx - start_idx
                        THEN EmbedChunks(loaded, r.cache, texts, b + 1, fails,
                                         acc \o r.ret)
                        ELSE [ok |-> FALSE, embeddings |-> acc, cache |-> r.cache])

RECURSIVE StorePositions(_, _, _, _, _)
\* step 5: update_chunk_faiss_position for each of chunk_objects; the update
\* of the places in unstored raises, which is logged and nothing more
StorePositions(rows, ids, faiss_positions, i, unstored) ==
    IF i > Len(ids) THEN rows
    ELSE IF i \in unstored
    THEN StorePositions(rows, ids, faiss_positions, i + 1, unstored)
    ELSE Strict(update_chunk_faiss_position(rows, ids[i], faiss_positions[i]),
                LAMBDA updated :
                    StorePositions(updated, ids, faiss_positions, i + 1, unstored))

\* the task with the failures of its steps.  faults is [services, rejected,
\* fails, index_add, unstored, analysis]: get_services raises; the rows that
\* cannot be created; the batches whose encoding fails; add_embeddings
\* returns no positions ("empty") or raises; the positions that cannot be
\* written; the structure analysis raises.  caught says that the except
\* clauses of the task are there: without them an exception leaves the task
\* and the status stays as it was set by the upload, "processing".
ProcessDocumentWith(loaded, cache, rows, index, document_id, parsed, faults, caught) ==
    LET escaped == IF caught THEN "error" ELSE "processing" IN
    IF faults.services = "raises"
    THEN [status |-> escaped, chunks |-> rows, cache |-> cache, index |-> index]
    ELSE IF parsed.raised
    THEN [status |-> escaped, chunks |-> rows, cache |-> cache, index |-> index]
    ELSE IF parsed.chunks = <<>>
    THEN [status |-> "error", chunks |-> rows, cache |-> cache, index |-> index]
    ELSE
    Strict(StoreChunks(rows, <<>>, document_id, parsed.chunks, 1, faults.rejected),
      LAMBDA stored :
        LET chunk_objects == stored.ids
            texts == [i \in 1..Len(chunk_objects) |->
                         stored.rows[chunk_objects[i]].text_chunk]
            metadata_list == [i \in 1..Len(chunk_objects) |->
                                 [chunk_id |-> chunk_objects[i],
                                  document_id |-> document_id,
                                  chunk_index |-> stored.rows[chunk_objects[i]].chunk_index]]
        IN  IF chunk_objects = <<>>
            THEN [status |-> "error", chunks |-> stored.rows, cache |-> cache,
                  index |-> index]
            ELSE
            Strict(EmbedChunks(loaded, cache, texts, 1, faults.fails, <<>>),
              LAMBDA emb :
                IF ~emb.ok \/ Len(emb.embeddings) # Len(chunk_objects)
                THEN [status |-> "error", chunks |-> stored.rows,
                      cache |-> emb.cache, index |-> index]
                ELSE IF faults.index_add = "raises"
                THEN [status |-> escaped, chunks |-> stored.rows,
                      cache |-> emb.cache, index |-> index]
                ELSE IF faults.index_add = "empty"
                THEN [status |-> "error", chunks |-> stored.rows,
                      cache |-> emb.cache, index |-> index]
                ELSE
                Strict(add_embeddings(index, emb.embeddings, metadata_list),
                  LAMBDA added :
                    IF ~added.ok \/ added.positions = <<>>
                    THEN [status |-> "error", chunks |-> stored.rows,
                          cache |-> emb.cache, index |-> index]
                    ELSE [status |-> IF faults.analysis = "raises" /\ ~caught
                                     THEN "processing" ELSE "ready",
                          chunks |-> StorePositions(stored.rows, chunk_objects,
                                                    added.positions, 1,
                                                    faults.unstored),
                          cache |-> emb.cache, index |-> added.index])))

\* no except clause of the task sets the status
process_document_background_uncaught(loaded, cache, rows, index, document_id, parsed, faults) ==
    ProcessDocumentWith(loaded, cache, rows, index, document_id, parsed, faults, FALSE)

process_document_background_faulty(loaded, cache, rows, index, document_id, parsed, faults) ==
    ProcessDocumentWith(loaded, cache, rows, index, document_id, parsed, faults, TRUE)

\* the task when nothing but the storing of rows, the encoding and the
\* writing of positions fails
process_document_background(loaded, cache, rows, index, document_id, parsed, rejected, fails, unstored) ==
    process_document_background_faulty(loaded, cache, rows, index, document_id, parsed,
        [services |-> "ok", rejected |-> rejected, fails |-> fails,
         index_add |-> "ok", unstored |-> unstored, analysis |-> "ok"])

----------------------------------------------------------------------------
(* EmbeddingService.extract_semantic_content, as semantic_search calls it: *)
(* document_chunks are records [chunk_id, document_id, text_chunk,         *)
(* chunk_type]; the rows carry no section_title, content_quality_score,    *)
(* semantic_markers or extraction_method, so the defaults apply.  The      *)
(* value is [ret, cache].                                                   *)

Max(a, b) == IF a > b THEN a ELSE b

\* query_threshold = None
NoThreshold == -1

\* self.similarity_threshold
DefaultSimilarityThreshold == 70

\* the greatest effective threshold of a call without query_threshold
FlexibleThresholdCap == 25

\* max(query_threshold * 0.8, 0.1) when query_threshold is given, else
\* min(self.similarity_threshold * 0.4, 0.25)
effective_threshold(query_threshold) ==
    IF query_threshold # NoThreshold
    THEN Max((query_threshold * 8) \div 10, 10)
    ELSE Min((DefaultSimilarityThreshold * 4) \div 10, FlexibleThresholdCap)

WordSet(text) == LET ws == Words(text, 1, <<>>) IN { ws[i] : i \in 1..Len(ws) }

calculate_enhanced_relevance(similarity, chunk_type, query, chunk_text) ==
    LET type_boost == IF chunk_type \in {"H1", "H2"} THEN 10
                      ELSE IF chunk_type \in {"introduction", "summary"} THEN 5
                      ELSE 0
        query_words == WordSet(query)
        keyword_boost == (Cardinality(query_words \cap WordSet(chunk_text)) * 15)
                            \div Max(1, Cardinality(query_words))
    IN  Min(similarity + type_boost + keyword_boost, 100)

RECURSIVE SortByRelevance(_)
\* list.sort(key = relevance_score, reverse = True): a stable sort
SortByRelevance(results) ==
    IF results = <<>> THEN <<>>
    ELSE LET i == CHOOSE j \in 1..Len(results) :
                     /\ \A m \in 1..Len(results) :
                            results[m].relevance_score <= results[j].relevance_score
                     /\ \A m \in 1..(j - 1) :
                            results[m].relevance_score < results[j].relevance_score
         IN  <<results[i]>> \o SortByRelevance(SubSeq(results, 1, i - 1)
                                               \o SubSeq(results, i + 1, Len(results)))

extract_semantic_content(loaded, cache, document_chunks, query, max_chunks, query_threshold, fail_query, fail_chunks) ==
    IF document_chunks = <<>> \/ query = <<>> THEN [ret |-> <<>>, cache |-> cache]
    ELSE
    Strict(create_embedding(loaded, cache, query, fail_query), LAMBDA q :
      IF q.ret = EmptyVec THEN [ret |-> <<>>, cache |-> q.cache]
      ELSE
      Strict(create_embeddings_batch(loaded, q.cache,
                 [i \in 1..Len(document_chunks) |-> document_chunks[i].text_chunk],
                 IF fail_chunks THEN {1} ELSE {}),
        LAMBDA c :
          IF c.ret = <<>> THEN [ret |-> <<>>, cache |-> c.cache]
          ELSE
          Strict(calculate_similarities(q.ret, c.ret), LAMBDA similarities :
            LET result(i) ==
                    [chunk_id |-> document_chunks[i].chunk_id,
                     document_id |-> document_chunks[i].document_id,
                     similarity_score |-> similarities[i],
                     relevance_score |->
                         calculate_enhanced_relevance(similarities[i],
                             document_chunks[i].chunk_type, query,
                             document_chunks[i].text_chunk)]
                admitted == SelectSeq([i \in 1..Len(document_chunks) |-> i],
                                LAMBDA i : similarities[i]
                                             >= effective_threshold(query_threshold))
            IN  Strict(SortByRelevance([n \in 1..Len(admitted) |-> result(admitted[n])]),
                  LAMBDA ranked_results :
                    [ret |-> SubSeq(ranked_results, 1,
                                    Min(max_chunks, Len(ranked_results))),
                     cache |-> c.cache]))))

----------------------------------------------------------------------------
(* POST /search/semantic.  search_query is [query_text, top_k,             *)
(* similarity_threshold, document_ids]; has_session: the request carries   *)
(* the X-Session-ID header.  The value is [status, total_results, results, *)
(* query_embedding, cache]; status 500 is the HTTPException of the handler. *)

\* the stages of the handler; index_threshold is the threshold handed to
\* the search of the index
semantic_search_stages(loaded, cache, rows, docs, index, search_query, has_session, fail_query, fail_chunks, index_threshold) ==
    Strict(create_embedding(loaded, cache, search_query.query_text, fail_query),
      LAMBDA q :
        IF q.ret = EmptyVec \/ ~has_session
        THEN [status |-> 500, total_results |-> 0, results |-> <<>>,
              query_embedding |-> q.ret, cache |-> q.cache]
        ELSE
        Strict(faiss_search(index, q.ret, search_query.top_k * 2, index_threshold),
          LAMBDA faiss_results :
            LET chunk_lookup(pos) == get_text_chunks_by_faiss_positions(rows, {pos})
                kept == SelectSeq(faiss_results, LAMBDA r :
                            /\ chunk_lookup(r.faiss_index_position) # {}
                            /\ \/ search_query.document_ids = {}
                               \/ \E id \in chunk_lookup(r.faiss_index_position) :
                                      rows[id].document_id \in search_query.document_ids)
                chunk_data(r) ==
                    LET id == CHOOSE c \in chunk_lookup(r.faiss_index_position) : TRUE
                    IN  [chunk_id |-> id, document_id |-> rows[id].document_id,
                         text_chunk |-> rows[id].text_chunk,
                         chunk_type |-> rows[id].chunk_type]
            IN  IF faiss_results = <<>>
                THEN [status |-> 200, total_results |-> 0, results |-> <<>>,
                      query_embedding |-> q.ret, cache |-> q.cache]
                ELSE
                Strict([i \in 1..Len(kept) |-> chunk_data(kept[i])],
                  LAMBDA document_chunks :
                    Strict(extract_semantic_content(loaded, q.cache, document_chunks,
                               search_query.query_text, search_query.top_k,
                               search_query.similarity_threshold,
                               fail_query, fail_chunks),
                      LAMBDA enhanced :
                        LET found == SelectSeq(enhanced.ret, LAMBDA r :
                                         docs[r.document_id].status # "deleted")
                        IN  [status |-> 200, total_results |-> Len(found),
                             results |-> [i \in 1..Len(found) |->
                                 [chunk_id |-> found[i].chunk_id,
                                  document_id |-> found[i].document_id,
                                  similarity_score |-> found[i].similarity_score]],
                             query_embedding |-> q.ret,
                             cache |-> enhanced.cache]))))

\* the index is searched without the threshold of the query
semantic_search_no_threshold(loaded, cache, rows, docs, index, search_query, has_session, fail_query, fail_chunks) ==
    semantic_search_stages(loaded, cache, rows, docs, index, search_query,
                           has_session, fail_query, fail_chunks, 0)

semantic_search(loaded, cache, rows, docs, index, search_query, has_session, fail_query, fail_chunks) ==
    semantic_search_stages(loaded, cache, rows, docs, index, search_query,
                           has_session, fail_query, fail_chunks,
                           search_query.similarity_threshold)

----------------------------------------------------------------------------
(* GET /search/similar/{chunk_id}.  The value is [status, results].        *)

find_similar_chunks(rows, docs, index, chunk_id, top_k, similarity_threshold, has_session) ==
    LET position == rows[chunk_id].faiss_index_position
        embedding_data == get_embedding_by_position(index, position)
        faiss_results == faiss_search(index, embedding_data.vector, top_k + 1,
                                      similarity_threshold)
        chunk_of(r) == get_text_chunks_by_faiss_positions(rows, {r.faiss_index_position})
        kept == SelectSeq(faiss_results, LAMBDA r :
                    /\ r.faiss_index_position # position
                    /\ chunk_of(r) # {}
                    /\ \E id \in chunk_of(r) : docs[rows[id].document_id].status # "deleted")
        results == [i \in 1..Len(kept) |->
                       [chunk_id |-> CHOOSE id \in chunk_of(kept[i]) : TRUE,
                        faiss_index_position |-> kept[i].faiss_index_position,
                        similarity_score |-> kept[i].similarity_score]]
    IN  IF ~has_session THEN [status |-> 400, results |-> <<>>]
        ELSE IF chunk_id \notin ChunkIds(rows) THEN [status |-> 404, results |-> <<>>]
        ELSE IF position = NoPosition THEN [status |-> 400, results |-> <<>>]
        ELSE IF ~embedding_data.found THEN [status |-> 500, results |-> <<>>]
        ELSE [status |-> 200,
              results |-> SubSeq(results, 1, Min(top_k, Len(results)))]

----------------------------------------------------------------------------
(* DELETE /documents/{document_id}.  The value is [status, chunks,         *)
(* documents, index, removed]; removed holds the positions handed to       *)
(* remove_embeddings.                                                      *)

delete_document_endpoint(rows, docs, index, document_id) ==
    LET faiss_positions ==
            { rows[id].faiss_index_position :
                id \in { c \in ChunkIds(rows) :
                           /\ rows[c].document_id = document_id
                           /\ rows[c].faiss_index_position # NoPosition } }
    IN  IF docs[document_id].status = "deleted"
        THEN [status |-> 404, chunks |-> rows, documents |-> docs,
              index |-> index, removed |-> {}]
        ELSE [status |-> 200,
              chunks |-> delete_document_rows(rows, document_id),
              documents |-> [docs EXCEPT ![document_id].status = "deleted"],
              index |-> IF faiss_positions # {}
                        THEN remove_embeddings(index, faiss_positions)
                        ELSE index,
              removed |-> faiss_positions]

----------------------------------------------------------------------------
(* The documents and the index as a state machine.  The Document rows      *)
(* exist from the start, each with its background task scheduled;          *)
(* FaissService writes the index through to disk on every change, as its   *)
(* callers never ask for it to be saved.                                   *)

\* the largest top_k of a request
MaxTopK == 2

TopKs == 1..MaxTopK

Thresholds == {0, 30, 90}

\* query_text is stripped and not blank (SearchQuery)
Queries == { <<97>>, <<98>> }

\* the chunks the parser returns: "a" as content, "b" under a heading
ParsedChunkList == << [text_chunk |-> <<97>>, chunk_type |-> "content"],
                      [text_chunk |-> <<98>>, chunk_type |-> "H1"] >>

\* what the parser returns for a document: nothing, "a", "a" and "b",
\* "a" twice
ParsedLists == { <<>>, <<ParsedChunkList[1]>>,
                 <<ParsedChunkList[1], ParsedChunkList[2]>>,
                 <<ParsedChunkList[1], ParsedChunkList[1]>> }

ParseOutcomes ==
    { [raised |-> TRUE, chunks |-> <<>>] }
    \cup { [raised |-> FALSE, chunks |-> c] : c \in ParsedLists }

SearchQueries ==
    [query_text : Queries, top_k : TopKs, similarity_threshold : Thresholds,
     document_ids : { {}, {1} }]

\* what goes wrong while a request is served: nothing, the X-Session-ID
\* header is missing, or model.encode raises on the query or on the chunks
Faults == {"none", "no_session", "encode_query", "encode_chunks"}

\* what goes wrong in steps 1 to 4 of a background task: nothing, the row
\* of the second chunk cannot be created, or model.encode raises on the
\* first batch
TaskFaults ==
    { [rejected |-> {}, fails |-> {}, unstored |-> {}],
      [rejected |-> {2}, fails |-> {}, unstored |-> {}],
      [rejected |-> {}, fails |-> {1}, unstored |-> {}] }

\* what goes wrong in step 5: the position of the first chunk cannot be
\* written
PositionFaults == { [rejected |-> {}, fails |-> {}, unstored |-> {1}] }

Persisted(index) ==
    IF index # faiss_index THEN persist_index(index) ELSE faiss_disk

InitIndex ==
    /\ model_loaded = TRUE
    /\ embedding_cache = <<>>
    /\ last = NoCall
    /\ watched = TextList[1]
    /\ first_vec = NoVec
    /\ documents = [d \in DocIds |-> [status |-> "processing", task |-> TRUE]]
    /\ chunks = <<>>
    /\ faiss_index = <<>>
    /\ faiss_disk = persist_index(<<>>)
    /\ removed = {}
    /\ response = NoResponse
    /\ ThreadsIdle

\* what the background task of document d returns and leaves behind, for
\* each outcome of the parser and each of faults
TaskResults(d, faults) ==
    { process_document_background(model_loaded, embedding_cache, chunks,
          faiss_index, d, parsed, fault.rejected, fault.fails, fault.unstored) :
        parsed \in ParseOutcomes, fault \in faults }

\* the background task of an uploaded document runs
ProcessDocumentBackground ==
    \E d \in DocIds :
        /\ documents[d].task
        /\ \E r \in TaskResults(d, TaskFaults) :
               /\ documents' = [update_document_status(documents, d, r.status)
                                   EXCEPT ![d].task = FALSE]
               /\ chunks' = r.chunks
               /\ embedding_cache' = r.cache
               /\ faiss_index' = r.index
               /\ faiss_disk' = Persisted(r.index)
        /\ UNCHANGED <<thread_vars, model_loaded, last, watched, first_vec, removed, response>>

\* DELETE /documents/{document_id}
DeleteDocumentEndpoint ==
    \E document_id \in DocIds :
        LET r == delete_document_endpoint(chunks, documents, faiss_index, document_id)
        IN  /\ faiss_index' = r.index
            /\ faiss_disk' = Persisted(r.index)
            /\ removed' = removed \cup r.removed
            /\ chunks' = r.chunks
            /\ documents' = r.documents
            /\ response' = [op |-> "delete_document", status |-> r.status]
            /\ UNCHANGED <<thread_vars, embed_vars>>

\* POST /documents/reload-index
ReloadFaissIndex ==
    /\ faiss_index' = reload_index(faiss_disk)
    /\ response' = [op |-> "reload_index", status |-> 200]
    /\ UNCHANGED <<thread_vars, embed_vars, documents, chunks, faiss_disk, removed>>

NextIndex ==
    \/ ProcessDocumentBackground
    \/ DeleteDocumentEndpoint
    \/ ReloadFaissIndex

SpecIndex == InitIndex /\ [][NextIndex]_vars

\* the background task of an uploaded document runs and the database
\* refuses an update of step 5
ProcessDocumentBackgroundUnstored ==
    \E d \in DocIds :
        /\ documents[d].task
        /\ \E r \in TaskResults(d, PositionFaults) :
               /\ documents' = [update_document_status(documents, d, r.status)
                                   EXCEPT ![d].task = FALSE]
               /\ chunks' = r.chunks
               /\ embedding_cache' = r.cache
               /\ faiss_index' = r.index
               /\ faiss_disk' = Persisted(r.index)
        /\ UNCHANGED <<thread_vars, model_loaded, last, watched, first_vec, removed, response>>

NextStore ==
    \/ ProcessDocumentBackground
    \/ ProcessDocumentBackgroundUnstored
    \/ DeleteDocumentEndpoint
    \/ ReloadFaissIndex

\* as InitIndex, and the model may have failed to load (_load_model)
InitStore ==
    /\ model_loaded \in BOOLEAN
    /\ embedding_cache = <<>>
    /\ last = NoCall
    /\ watched = TextList[1]
    /\ first_vec = NoVec
    /\ documents = [d \in DocIds |-> [status |-> "processing", task |-> TRUE]]
    /\ chunks = <<>>
    /\ faiss_index = <<>>
    /\ faiss_disk = persist_index(<<>>)
    /\ removed = {}
    /\ response = NoResponse
    /\ ThreadsIdle

\* the documents and the index, with the failures of step 5 and of the
\* loading of the model
SpecStore == InitStore /\ [][NextStore]_vars

----------------------------------------------------------------------------
(* One search request, from every state in which the documents have been   *)
(* processed in the order of their ids and some of them deleted since.     *)

RECURSIVE ProcessAll(_, _, _)
\* the background tasks of the documents d..MaxDocs have run
ProcessAll(st, outcome, d) ==
    IF d > MaxDocs THEN st
    ELSE Strict(process_document_background(TRUE, st.cache, st.chunks, st.index,
                    d, [raised |-> FALSE, chunks |-> outcome[d]], {}, {}, {}),
           LAMBDA r :
             Strict([cache |-> r.cache, chunks |-> r.chunks, index |-> r.index,
                     documents |-> [update_document_status(st.documents, d, r.status)
                                       EXCEPT ![d].task = FALSE]],
                    LAMBDA next : ProcessAll(next, outcome, d + 1)))

RECURSIVE DeleteAll(_, _, _)
\* the documents of deleted among d..MaxDocs have been deleted
DeleteAll(st, deleted, d) ==
    IF d > MaxDocs THEN st
    ELSE IF d \notin deleted THEN DeleteAll(st, deleted, d + 1)
    ELSE Strict(delete_document_endpoint(st.chunks, st.documents, st.index, d),
           LAMBDA r :
             Strict([cache |-> st.cache, chunks |-> r.chunks, index |-> r.index,
                     documents |-> r.documents],
                    LAMBDA next : DeleteAll(next, deleted, d + 1)))

InitSearch ==
    \E outcome \in [DocIds -> ParsedLists], deleted \in SUBSET DocIds,
       restarted \in BOOLEAN :
        LET fresh == [cache |-> <<>>, chunks |-> <<>>, index |-> <<>>,
                      documents |-> [d \in DocIds |->
                                        [status |-> "processing", task |-> TRUE]]]
        IN  \E st \in { DeleteAll(ProcessAll(fresh, outcome, 1), deleted, 1) } :
            /\ model_loaded = TRUE
            /\ embedding_cache = IF restarted THEN <<>> ELSE st.cache
            /\ last = NoCall
            /\ watched = TextList[1]
            /\ first_vec = NoVec
            /\ documents = st.documents
            /\ chunks = st.chunks
            /\ faiss_index = st.index
            /\ faiss_disk = persist_index(st.index)
            /\ removed = { p \in Positions(st.index) : ~st.index[p + 1].live }
            /\ response = NoResponse
            /\ ThreadsIdle

SemanticSearch ==
    /\ response = NoResponse
    /\ \E search_query \in SearchQueries, fault \in Faults :
           LET has_session == fault # "no_session"
               r == semantic_search(model_loaded, embedding_cache, chunks, documents,
                                    faiss_index, search_query, has_session,
                                    fault = "encode_query", fault = "encode_chunks")
           IN  /\ embedding_cache' = r.cache
               /\ response' = [op |-> "semantic_search", query |-> search_query,
                               has_session |-> has_session,
                               query_embedding |-> r.query_embedding,
                               status |-> r.status,
                               total_results |-> r.total_results,
                               results |-> r.results]
               /\ UNCHANGED <<thread_vars, model_loaded, last, watched, first_vec, documents,
                              chunks, faiss_index, faiss_disk, removed>>

FindSimilarChunks ==
    /\ response = NoResponse
    /\ \E chunk_id \in 1..(Len(chunks) + 1), top_k \in TopKs,
          similarity_threshold \in Thresholds, has_session \in BOOLEAN :
           LET r == find_similar_chunks(chunks, documents, faiss_index, chunk_id,
                                        top_k, similarity_threshold, has_session)
           IN  /\ response' = [op |-> "find_similar_chunks", chunk_id |-> chunk_id,
                               top_k |-> top_k,
                               similarity_threshold |-> similarity_threshold,
                               status |-> r.status, results |-> r.results]
               /\ UNCHANGED <<thread_vars, embed_vars, documents, chunks, faiss_index,
                              faiss_disk, removed>>

NextSearch == SemanticSearch \/ FindSimilarChunks

SpecSearch == InitSearch /\ [][NextSearch]_vars

----------------------------------------------------------------------------
(* Claims about the vector index.  They are stated of the index in every   *)
(* state the documents' processing, deletion and the reloads lead to, for  *)
(* every search of a fixed set of probes.                                  *)

\* the query vectors of the probes: the encodings of "a" and "b"
ProbeVectors == { Enc(<<97>>), Enc(<<98>>) }

\* the top_k of the probes: the handlers ask the index for up to
\* top_k * 2 and top_k + 1 entries
ProbeKs == {1, MaxTopK + 1}

SimilarityOf(index, q, p) == cosine_similarity(q, index[p + 1].vector)

\* the positions a search returns
Returned(results) == { results[i].faiss_index_position : i \in 1..Len(results) }

\* the results are at most top_k entries of similarity >= the threshold
BoundedAndFiltered(results, top_k, similarity_threshold) ==
    /\ Len(results) <= top_k
    /\ \A i \in 1..Len(results) :
           results[i].similarity_score >= similarity_threshold

ObservablyEqual(index1, index2) ==
    /\ Positions(index1) = Positions(index2)
    /\ \A p \in Positions(index1) :
           get_embedding_by_position(index1, p) = get_embedding_by_position(index2, p)
    /\ \A q \in ProbeVectors, k \in ProbeKs, t \in Thresholds :
           faiss_search(index1, q, k, t) = faiss_search(index2, q, k, t)

ProbeVectorLists == { <<>>, <<Enc(<<97>>)>>, <<Enc(<<98>>), Enc(<<97>>)>> }

ProbeMetadataLists ==
    { <<>>, <<[chunk_id |-> 7, document_id |-> 3, chunk_index |-> 0]>>,
      <<[chunk_id |-> 7, document_id |-> 3, chunk_index |-> 0],
        [chunk_id |-> 8, document_id |-> 3, chunk_index |-> 1]>> }

\* C8: add(vectors, metadata) returns one position per vector, in call
\* order and one-to-one with the metadata entries, and leaves the earlier
\* entries alone; when the lengths differ the call fails and the index is
\* exactly as it was.  The positions the chunks of the processed documents
\* were given lead back to these chunks.
C8_AddReturnsPositionsOrFailsAtomically ==
    /\ \A vectors \in ProbeVectorLists, metadata \in ProbeMetadataLists :
           LET r == add_embeddings(faiss_index, vectors, metadata)
           IN  IF Len(vectors) = Len(metadata)
               THEN /\ r.ok
                    /\ Len(r.positions) = Len(vectors)
                    /\ \A i \in 1..Len(vectors) :
                           /\ r.positions[i] = Len(faiss_index) + i - 1
                           /\ get_embedding_by_position(r.index, r.positions[i])
                                = [found |-> TRUE, vector |-> vectors[i],
                                   metadata |-> metadata[i]]
                    /\ SubSeq(r.index, 1, Len(faiss_index)) = faiss_index
                    /\ Len(r.index) = Len(faiss_index) + Len(vectors)
               ELSE /\ ~r.ok
                    /\ r.positions = <<>>
                    /\ r.index = faiss_index
    /\ \A id \in ChunkIds(chunks) :
           chunks[id].faiss_index_position # NoPosition =>
               LET e == get_embedding_by_position(faiss_index,
                                                  chunks[id].faiss_index_position)
               IN  /\ e.found
                   /\ e.metadata.chunk_id = id
                   /\ e.metadata.chunk_index = chunks[id].chunk_index
                   /\ e.vector = Enc(preprocess_text(chunks[id].text_chunk))

\* a document of two chunks was indexed after another document: its chunks
\* hold consecutive positions in the order of their chunk_index
C8_Witness ==
    \E id1, id2 \in ChunkIds(chunks) :
        /\ chunks[id1].document_id = chunks[id2].document_id
        /\ chunks[id1].chunk_index + 1 = chunks[id2].chunk_index
        /\ chunks[id1].faiss_index_position > 0
        /\ chunks[id2].faiss_index_position = chunks[id1].faiss_index_position + 1

----------------------------------------------------------------------------
(* Claims about the search endpoint, stated of the response of a request.  *)

\* the threshold of the answered semantic search is above the similarity of
\* the query to every entry of the index
ThresholdAboveEveryEntry ==
    /\ response.op = "semantic_search"
    /\ response.has_session
    /\ response.query_embedding # EmptyVec
    /\ \A p \in LivePositions(faiss_index) :
           SimilarityOf(faiss_index, response.query_embedding, p)
               < response.query.similarity_threshold

\* C5: a semantic search whose threshold is above the similarity of every
\* indexed entry is answered with status 200, an empty result list and
\* total_results 0, never with an error.
C5_ThresholdAboveAllGivesEmptyResult ==
    ThresholdAboveEveryEntry =>
        /\ response.status = 200
        /\ response.results = <<>>
        /\ response.total_results = 0

\* a search with threshold 0.9 was answered while the best entry of the
\* index has similarity 0.85 to the query
C5_Witness ==
    /\ ThresholdAboveEveryEntry
    /\ response.query.similarity_threshold = 90
    /\ \E p \in LivePositions(faiss_index) :
           SimilarityOf(faiss_index, response.query_embedding, p) = 85

----------------------------------------------------------------------------
(* The document parser (document_parser.py).  A PDF is its pages and its   *)
(* embedded outline.  A page is the sequence of its text lines as the      *)
(* feature extraction hands them to the chunk builder, each with the label *)
(* of the heading classifier and the length of its stripped text; the text *)
(* of a line is identified by its place <<page, line>>, pages counted from *)
(* 0 as in the code.  An outline entry is [level, page_num], its title is  *)
(* identified by the number of the entry; page_num counts from 1 and is -1 *)
(* for an entry without a destination.                                     *)

\* a line shorter than this is skipped by the chunk builder
MinLineLength == 3

\* a section with more content lines than this at the end of a page is cut
PageCutThreshold == 20

\* a section or page chunk with less content than this is not created
MinContentLength == 30

\* a chunk with less text than this is dropped by the post-processing
MinChunkSize == 50

Heading(n) == [class |-> "H1", chars |-> n]

Content(n) == [class |-> "content", chars |-> n]

\* the places of the lines of page p (counted from 0)
LinesOfPage(pages, p) == { <<p, l>> : l \in 1..Len(pages[p + 1]) }

RECURSIVE SumChars(_)
SumChars(items) ==
    IF items = <<>> THEN 0 ELSE items[1].chars + SumChars(Tail(items))

\* len(" ".join(texts))
JoinedChars(items) ==
    IF items = <<>> THEN 0 ELSE SumChars(items) + Len(items) - 1

\* len of the text of pages a..b as the outline path builds it: get_text()
\* ends every line with a newline, and a newline is added after every page
RECURSIVE RawChars(_, _, _)
RawChars(pages, a, b) ==
    IF a > b THEN 0
    ELSE SumChars(pages[a + 1]) + Len(pages[a + 1]) + 1 + RawChars(pages, a + 1, b)

\* len(section_text.strip()) for the pages of range, one of which has text
StrippedChars(pages, range) ==
    LET with_text == { p \in range : pages[p + 1] # <<>> }
        first_page == CHOOSE p \in with_text : \A q \in with_text : p <= q
        last_page == CHOOSE p \in with_text : \A q \in with_text : p >= q
    IN  RawChars(pages, first_page, last_page) - 2

\* the chunks of the outline entries from entry i on
RECURSIVE TocChunksFrom(_, _, _)
TocChunksFrom(pages, toc, i) ==
    IF i > Len(toc) THEN <<>>
    ELSE LET page_num == toc[i].page_num
             end_page == IF i + 1 <= Len(toc) THEN toc[i + 1].page_num - 1
                         ELSE Len(pages) - 1
             range == { p \in (page_num - 1)..(Min(end_page, Len(pages)) - 1) : p >= 0 }
             lines == UNION { LinesOfPage(pages, p) : p \in range }
         IN  (IF lines # {}
              THEN << [page_number |-> page_num - 1,
                       lines |-> lines,
                       chars |-> StrippedChars(pages, range),
                       section_title |-> [kind |-> "toc", entry |-> i],
                       chunk_type |-> IF Min(toc[i].level, 3) = 1 THEN "H1"
                                      ELSE IF Min(toc[i].level, 3) = 2 THEN "H2"
                                      ELSE "H3",
                       extraction_method |-> "embedded_toc"] >>
              ELSE <<>>)
             \o TocChunksFrom(pages, toc, i + 1)

extract_chunks_from_toc(pages, toc) == TocChunksFrom(pages, toc, 1)

----------------------------------------------------------------------------
(* The general path: _build_enhanced_text_chunks and _post_process_chunks. *)
(* A section is [title, title_chars, content, start_page, heading_level];  *)
(* its content is a sequence of [ref, chars, page].                        *)

\* the title of the section before the first heading: ""
NoTitle == [kind |-> "none"]

InitialSection ==
    [title |-> NoTitle, title_chars |-> 0, content |-> <<>>, start_page |-> 0,
     heading_level |-> "None"]

\* the number of decimal digits of n >= 0
Digits(n) == IF n < 10 THEN 1 ELSE 2

\* the chunk of a section, or none: <<chunk>> or <<>>
finalize_section_chunk(section, page_idx) ==
    LET content == section.content
        on_pages == { content[i].page : i \in 1..Len(content) }
        page_content_lengths ==
            [p \in on_pages |->
                SumChars(SelectSeq(content, LAMBDA item : item.page = p))]
        \* max() keeps the first of the pages of greatest length, and the
        \* pages were entered in ascending order
        primary_page ==
            CHOOSE p \in on_pages :
                \A q \in on_pages :
                    \/ page_content_lengths[p] > page_content_lengths[q]
                    \/ page_content_lengths[p] = page_content_lengths[q] /\ p <= q
    IN  IF content = <<>> \/ JoinedChars(content) < MinContentLength THEN <<>>
        ELSE << [page_number |-> primary_page,
                 lines |-> { content[i].ref : i \in 1..Len(content) },
                 chars |-> JoinedChars(content),
                 section_title |->
                     IF section.title # NoTitle THEN section.title
                     ELSE [kind |-> "start_page", page |-> section.start_page + 1],
                 title_chars |->
                     IF section.title # NoTitle THEN section.title_chars
                     ELSE 25 + Digits(section.start_page + 1),
                 chunk_type |-> section.heading_level,
                 extraction_method |-> "enhanced_pipeline"] >>

\* the chunk of the content of a section on page page_idx, or none
create_page_chunk(section, page_idx) ==
    LET page_content == SelectSeq(section.content, LAMBDA item : item.page = page_idx)
    IN  IF page_content = <<>> \/ JoinedChars(page_content) < MinContentLength
        THEN <<>>
        ELSE << [page_number |-> page_idx,
                 lines |-> { page_content[i].ref : i \in 1..Len(page_content) },
                 chars |-> JoinedChars(page_content),
                 section_title |-> [kind |-> "page", of |-> section.title,
                                    page |-> page_idx + 1],
                 title_chars |-> section.title_chars + 8 + Digits(page_idx + 1),
                 chunk_type |-> "page_section",
                 extraction_method |-> "enhanced_pipeline"] >>

\* a heading opens the new section without closing the one before
BuildLineNoFlush(st, page_idx, l, line) ==
    IF line.chars < MinLineLength THEN st
    ELSE IF line.class \in {"H1", "H2", "H3"}
    THEN [chunks |-> st.chunks,
          section |-> [title |-> [kind |-> "heading", ref |-> <<page_idx, l>>],
                       title_chars |-> line.chars, content |-> <<>>,
                       start_page |-> page_idx, heading_level |-> line.class]]
    ELSE [st EXCEPT !.section.content =
              Append(@, [ref |-> <<page_idx, l>>, chars |-> line.chars,
                         page |-> page_idx])]

\* one line of page page_idx; st is [chunks, section]
BuildLine(st, page_idx, l, line) ==
    IF line.chars < MinLineLength THEN st
    ELSE IF line.class \in {"H1", "H2", "H3"}
    THEN [chunks |-> st.chunks \o finalize_section_chunk(st.section, page_idx),
          section |-> [title |-> [kind |-> "heading", ref |-> <<page_idx, l>>],
                       title_chars |-> line.chars, content |-> <<>>,
                       start_page |-> page_idx, heading_level |-> line.class]]
    ELSE [st EXCEPT !.section.content =
              Append(@, [ref |-> <<page_idx, l>>, chars |-> line.chars,
                         page |-> page_idx])]

RECURSIVE BuildLines(_, _, _, _)
BuildLines(st, page_idx, lines, l) ==
    IF l > Len(lines) THEN st
    ELSE Strict(BuildLine(st, page_idx, l, lines[l]),
                LAMBDA next : BuildLines(next, page_idx, lines, l + 1))

\* the end of page page_idx: a section that has grown too long is cut
EndOfPage(st, page_idx) ==
    IF Len(st.section.content) > PageCutThreshold
    THEN [chunks |-> st.chunks \o create_page_chunk(st.section, page_idx),
          section |-> [st.section EXCEPT !.content = <<>>]]
    ELSE st

RECURSIVE BuildPages(_, _, _)
BuildPages(st, pages, page_idx) ==
    IF page_idx >= Len(pages) THEN st
    ELSE Strict(BuildLines(st, page_idx, pages[page_idx + 1], 1),
           LAMBDA after_lines :
             Strict(EndOfPage(after_lines, page_idx),
                    LAMBDA next : BuildPages(next, pages, page_idx + 1)))

build_enhanced_text_chunks(pages) ==
    Strict(BuildPages([chunks |-> <<>>, section |-> InitialSection], pages, 0),
      LAMBDA st : st.chunks \o finalize_section_chunk(st.section, Len(pages) - 1))

\* the chunks of page_number p, in their order
OfPage(built, p) == SelectSeq(built, LAMBDA c : c.page_number = p)

RECURSIVE SortByPage(_, _, _)
SortByPage(built, p, n) ==
    IF p >= n THEN <<>> ELSE OfPage(built, p) \o SortByPage(built, p + 1, n)

\* _post_process_chunks: the title is put before the text (the texts of the
\* headings are not part of the body text), short chunks are dropped, and
\* the chunks are sorted by page_number; the order of the chunks of one page,
\* by their quality score, is kept as built
post_process_chunks(built, page_count) ==
    LET titled == [i \in 1..Len(built) |->
                      [built[i] EXCEPT !.chars = built[i].title_chars + 4 + @]]
        kept == SelectSeq(titled, LAMBDA c : c.chars >= MinChunkSize)
    IN  SortByPage(kept, 0, page_count)

\* get_text_chunks of a PDF [pages, toc]
get_text_chunks(pdf) ==
    IF pdf.toc # <<>> THEN extract_chunks_from_toc(pdf.pages, pdf.toc)
    ELSE IF \A p \in 1..Len(pdf.pages) : pdf.pages[p] = <<>> THEN <<>>
    ELSE post_process_chunks(build_enhanced_text_chunks(pdf.pages), Len(pdf.pages))

----------------------------------------------------------------------------
(* The parser as a state machine: one call of get_text_chunks on a PDF.    *)

\* the number of pages of a PDF
MaxPages == 2

\* the number of entries of an outline
MaxTocEntries == 2

\* the number of lines of a page of running text: with one more line the
\* section is of more than PageCutThreshold lines
RunningLines == PageCutThreshold

\* the pages: an empty page, a heading with a paragraph, running text that
\* continues the section of the page before, a single short line, a heading
\* with a short paragraph, a heading with a section of more than
\* PageCutThreshold lines
PageShapes ==
    { <<>>,
      <<Heading(12), Content(60)>>,
      [i \in 1..RunningLines |-> Content(10)],
      <<Content(10)>>,
      <<Heading(12), Content(30)>>,
      <<Heading(12)>> \o [i \in 1..(PageCutThreshold + 1) |-> Content(10)] }

PageLists == UNION { [1..n -> PageShapes] : n \in 1..MaxPages }

\* the outlines of a PDF of n pages
TocEntries(n) ==
    [level : {1}, page_num : {-1} \cup 1..n] \cup { [level |-> 4, page_num |-> 1] }

TocLists(n) == UNION { [1..k -> TocEntries(n)] : k \in 0..MaxTocEntries }

InitParse ==
    /\ model_loaded = TRUE
    /\ embedding_cache = <<>>
    /\ last = NoCall
    /\ watched = TextList[1]
    /\ first_vec = NoVec
    /\ IndexIdle
    /\ ThreadsIdle

GetTextChunks ==
    /\ response = NoResponse
    /\ \E pages \in PageLists :
           \E toc \in TocLists(Len(pages)) :
               LET pdf == [pages |-> pages, toc |-> toc]
               IN  response' = [op |-> "get_text_chunks", pdf |-> pdf,
                                text_chunks |-> get_text_chunks(pdf)]
    /\ UNCHANGED <<thread_vars, embed_vars, documents, chunks, faiss_index, faiss_disk, removed>>

NextParse == GetTextChunks

SpecParse == InitParse /\ [][NextParse]_vars

----------------------------------------------------------------------------
(* Claims about the parser, stated of the result of a call.                *)

\* the outline points into the document: every entry to a page of the
\* document, in ascending order of the pages
OutlineInOrder(pdf) ==
    /\ pdf.toc # <<>>
    /\ \A i \in 1..Len(pdf.toc) : pdf.toc[i].page_num \in 1..Len(pdf.pages)
    /\ \A i \in 1..(Len(pdf.toc) - 1) : pdf.toc[i].page_num <= pdf.toc[i + 1].page_num

\* the pages (counted from 0) of outline entry i: from its page to the page
\* of the next entry, or to the last page
DeclaredRange(pdf, i) ==
    (pdf.toc[i].page_num - 1) ..
        (IF i < Len(pdf.toc) THEN pdf.toc[i + 1].page_num - 1 ELSE Len(pdf.pages) - 1)

\* C9: for a document with an embedded outline the fast path returns exactly
\* one chunk per outline entry, and the page_number of the chunk of an entry
\* lies within the pages the entry declares.  Stated of the documents whose
\* pages all have text and whose outline points to their pages in order.
C9_OneChunkPerOutlineEntry ==
    (/\ response.op = "get_text_chunks"
     /\ OutlineInOrder(response.pdf)
     /\ \A p \in 1..Len(response.pdf.pages) : response.pdf.pages[p] # <<>>)
    => /\ Len(response.text_chunks) = Len(response.pdf.toc)
       /\ \A i \in 1..Len(response.text_chunks) :
              /\ response.text_chunks[i].section_title = [kind |-> "toc", entry |-> i]
              /\ response.text_chunks[i].page_number \in DeclaredRange(response.pdf, i)

\* the text of the line at ref is part of a chunk: of its text, or its title
InSomeChunk(text_chunks, ref) ==
    \E i \in 1..Len(text_chunks) :
        \/ ref \in text_chunks[i].lines
        \/ text_chunks[i].section_title = [kind |-> "heading", ref |-> ref]
        \/ /\ text_chunks[i].section_title.kind = "page"
           /\ text_chunks[i].section_title.of = [kind |-> "heading", ref |-> ref]

\* the page has more body text than the shortest chunk that is kept
LongerThanMinimum(page) ==
    JoinedChars(SelectSeq(page, LAMBDA line : line.class = "content")) >= MinChunkSize

\* C10: get_text_chunks covers every page that has text: the page has a chunk
\* holding text of it, and no line of it is missing from all chunks, also
\* when a section spans pages and is cut into page chunks.  Stated of the
\* general path (no outline) and of the pages whose text is longer than the
\* minimum chunk length.
C10_EveryLineInSomeChunk ==
    (response.op = "get_text_chunks" /\ response.pdf.toc = <<>>) =>
        \A p \in 0..(Len(response.pdf.pages) - 1) :
            LongerThanMinimum(response.pdf.pages[p + 1]) =>
                /\ \E i \in 1..Len(response.text_chunks) :
                       response.text_chunks[i].lines
                           \cap LinesOfPage(response.pdf.pages, p) # {}
                /\ \A ref \in LinesOfPage(response.pdf.pages, p) :
                       InSomeChunk(response.text_chunks, ref)

\* the lines of the pages from page p on, in reading order
RECURSIVE FlatFrom(_, _)
FlatFrom(pages, p) ==
    IF p >= Len(pages) THEN <<>>
    ELSE [l \in 1..Len(pages[p + 1]) |->
             [ref |-> <<p, l>>, class |-> pages[p + 1][l].class,
              chars |-> pages[p + 1][l].chars, page |-> p]]
         \o FlatFrom(pages, p + 1)

\* the line is not skipped and is labelled as a heading
IsHeadingLine(x) == x.chars >= MinLineLength /\ x.class \in {"H1", "H2", "H3"}

\* the place in flat of the heading after the one at k, or Len(flat) + 1
NextHeading(flat, k) ==
    LET later == { j \in (k + 1)..Len(flat) : IsHeadingLine(flat[j]) }
    IN  IF later = {} THEN Len(flat) + 1
        ELSE CHOOSE j \in later : \A i \in later : j <= i

\* the body of the heading at k: the lines up to the next heading
BodyOf(flat, k) ==
    SelectSeq(SubSeq(flat, k + 1, NextHeading(flat, k) - 1),
              LAMBDA x : x.chars >= MinLineLength)

\* the body of the heading at k is at the end of no page longer than
\* PageCutThreshold lines
NeverCut(pages, flat, k) ==
    LET body == BodyOf(flat, k)
        next == NextHeading(flat, k)
    IN  \A p \in 0..(Len(pages) - 1) :
            (next > Len(flat) \/ p < flat[next].page) =>
                Cardinality({ i \in 1..Len(body) : body[i].page <= p })
                    <= PageCutThreshold

\* the chunks whose section_title is the text of the heading at ref
TitledBy(text_chunks, ref) ==
    { i \in 1..Len(text_chunks) :
        text_chunks[i].section_title = [kind |-> "heading", ref |-> ref] }

\* the heading at k of flat has exactly one chunk: titled by it, holding its
\* body, with the page_number of a page of the body
OneChunkOfHeading(text_chunks, flat, k) ==
    LET body == BodyOf(flat, k)
    IN  /\ Cardinality(TitledBy(text_chunks, flat[k].ref)) = 1
        /\ \A i \in TitledBy(text_chunks, flat[k].ref) :
               /\ text_chunks[i].lines = { body[j].ref : j \in 1..Len(body) }
               /\ text_chunks[i].page_number \in { body[j].page : j \in 1..Len(body) }

\* every line of the pages is part of a chunk
LosesNoLine(pdf, text_chunks) ==
    \A p \in 0..(Len(pdf.pages) - 1) :
        \A ref \in LinesOfPage(pdf.pages, p) : InSomeChunk(text_chunks, ref)

----------------------------------------------------------------------------
(* Column detection (document_parser.py).  A text block is the horizontal  *)
(* extent [x0, x1] of its bounding box; a page is its width and its        *)
(* blocks.  The comparisons of the code with page_width / 2 and with the   *)
(* ratio 0.2 are written without fractions.                                *)

\* a page with fewer blocks than this is never multi-column
MinColumnBlocks == 10

\* the margin around the page center of _detect_multi_column_layout
ColumnMargin == 50

\* the number of blocks of blocks for which keep holds
CountBlocks(blocks, keep(_)) == Cardinality({ i \in 1..Len(blocks) : keep(blocks[i]) })

\* _detect_multi_column_layout: by the left edges of the blocks
detect_multi_column_layout(text_blocks, page_width) ==
    LET left_blocks == CountBlocks(text_blocks,
                           LAMBDA b : 2 * b.x0 < page_width - 2 * ColumnMargin)
        right_blocks == CountBlocks(text_blocks,
                           LAMBDA b : 2 * b.x0 > page_width + 2 * ColumnMargin)
    IN  /\ Len(text_blocks) >= MinColumnBlocks
        /\ 5 * left_blocks > Len(text_blocks)
        /\ 5 * right_blocks > Len(text_blocks)

\* _is_multi_column_page: by the centers of the blocks, left of 0.8 and
\* right of 1.2 times the page center
is_multi_column_page(text_blocks, page_width) ==
    LET left_blocks == CountBlocks(text_blocks,
                           LAMBDA b : 5 * (b.x0 + b.x1) < 4 * page_width)
        right_blocks == CountBlocks(text_blocks,
                           LAMBDA b : 5 * (b.x0 + b.x1) > 6 * page_width)
    IN  /\ Len(text_blocks) >= MinColumnBlocks
        /\ 5 * left_blocks > Len(text_blocks)
        /\ 5 * right_blocks > Len(text_blocks)

\* the width of the pages
PageWidth == 595

\* the number of blocks of a column
MaxColumnBlocks == 5

\* the blocks of the pages: of a left column, of a right column after a
\* gutter of 20, of a narrow right column, of a narrow left column next to
\* the center, and of the full width
BlockKinds ==
    << [x0 |-> 50, x1 |-> 287], [x0 |-> 307, x1 |-> 545], [x0 |-> 360, x1 |-> 545],
       [x0 |-> 200, x1 |-> 290], [x0 |-> 50, x1 |-> 545] >>

\* how many blocks of each kind a page has
BlockCounts == [1..Len(BlockKinds) -> {0, 1, MaxColumnBlocks}]

\* the blocks of a page with counts[k] blocks of kind k, from kind k on
RECURSIVE BlocksFrom(_, _)
BlocksFrom(counts, k) ==
    IF k > Len(BlockKinds) THEN <<>>
    ELSE [i \in 1..counts[k] |-> BlockKinds[k]] \o BlocksFrom(counts, k + 1)

InitLayout == InitParse

DetectMultiColumnLayout ==
    /\ response = NoResponse
    /\ \E counts \in BlockCounts :
           LET text_blocks == BlocksFrom(counts, 1)
           IN  response' = [op |-> "detect_multi_column_layout",
                            text_blocks |-> text_blocks, page_width |-> PageWidth,
                            multi_column |->
                                detect_multi_column_layout(text_blocks, PageWidth)]
    /\ UNCHANGED <<thread_vars, embed_vars, documents, chunks, faiss_index, faiss_disk, removed>>

IsMultiColumnPage ==
    /\ response = NoResponse
    /\ \E counts \in BlockCounts :
           LET text_blocks == BlocksFrom(counts, 1)
           IN  response' = [op |-> "is_multi_column_page",
                            text_blocks |-> text_blocks, page_width |-> PageWidth,
                            multi_column |->
                                is_multi_column_page(text_blocks, PageWidth)]
    /\ UNCHANGED <<thread_vars, embed_vars, documents, chunks, faiss_index, faiss_disk, removed>>

NextLayout == DetectMultiColumnLayout \/ IsMultiColumnPage

SpecLayout == InitLayout /\ [][NextLayout]_vars

\* the blocks that lie left, and right, of the center of the page
LeftOfCenter(text_blocks, page_width) ==
    CountBlocks(text_blocks, LAMBDA b : 2 * b.x1 <= page_width)

RightOfCenter(text_blocks, page_width) ==
    CountBlocks(text_blocks, LAMBDA b : 2 * b.x0 >= page_width)

\* C12: a page with at least 10 runs, half of them left and half of them
\* right of the page center, is classified as multi-column, and a page whose
\* runs all lie in one half of the page is not; by both detectors.
C12_TwoColumnsDetected ==
    response.op \in {"detect_multi_column_layout", "is_multi_column_page"} =>
        LET n == Len(response.text_blocks)
            l == LeftOfCenter(response.text_blocks, response.page_width)
            r == RightOfCenter(response.text_blocks, response.page_width)
        IN  /\ (n >= MinColumnBlocks /\ l = r /\ l + r = n) => response.multi_column
            /\ (n > 0 /\ (l = n \/ r = n)) => ~response.multi_column

----------------------------------------------------------------------------
(* Claims about the chunks of get_text_chunks (SpecParse).                 *)

\* C13: every chunk returned by get_text_chunks, on every path, has
\* non-empty text of at least the minimum chunk length.  Stated of the PDFs
\* without outline and of those whose outline points to their pages in order.
C13_ChunksAtLeastMinimumLength ==
    (/\ response.op = "get_text_chunks"
     /\ (response.pdf.toc = <<>> \/ OutlineInOrder(response.pdf))) =>
        \A i \in 1..Len(response.text_chunks) :
            /\ response.text_chunks[i].lines # {}
            /\ response.text_chunks[i].chars >= MinChunkSize

\* C14: every chunk returned by get_text_chunks has a page_number p with
\* 0 <= p < the page count of the document, on every path, also for outline
\* entries whose declared page is 0 or negative.
C14_PageNumberWithinDocument ==
    response.op = "get_text_chunks" =>
        \A i \in 1..Len(response.text_chunks) :
            response.text_chunks[i].page_number \in 0..(Len(response.pdf.pages) - 1)

----------------------------------------------------------------------------
(* Heading classification (DocumentParser._classify_headings_enhanced).    *)
(* The features of a line are [font_size, is_bold, numbered, upper, colon, *)
(* chars]: numbered says that the text starts with digits and a dot, upper *)
(* that it is in upper case, colon that it ends with ':', chars is its     *)
(* length.  crf is what the CRF does: [available, raises, predicts], with  *)
(* raises the step that raises ("none" when none does) and predicts what   *)
(* a trained model answers.                                                *)

\* the score of a line in _rule_based_classification_enhanced
RuleScore(features) ==
    (IF features.font_size > 16 THEN 3
     ELSE IF features.font_size > 14 THEN 2
     ELSE IF features.font_size > 12 THEN 1 ELSE 0)
    + (IF features.is_bold THEN 2 ELSE 0)
    + (IF features.numbered THEN 2 ELSE 0)
    + (IF features.upper /\ features.chars < 100 THEN 1 ELSE 0)
    + (IF features.colon THEN 1 ELSE 0)
    - (IF features.chars < 5 \/ features.chars > 200 THEN 2 ELSE 0)

rule_based_classification_enhanced(page_features) ==
    [p \in 1..Len(page_features) |->
        [l \in 1..Len(page_features[p]) |->
            LET score == RuleScore(page_features[p][l])
            IN  IF score >= 4 THEN "H1"
                ELSE IF score >= 3 THEN "H2"
                ELSE IF score >= 2 THEN "H3"
                ELSE "P"]]

\* _rule_based_label: the labels the CRF is trained with
rule_based_label(features) ==
    IF features.is_bold /\ features.font_size > 14 THEN "B-H1"
    ELSE IF features.is_bold /\ features.font_size > 12 THEN "B-H2"
    ELSE IF features.upper /\ features.chars < 100 THEN "B-H2"
    ELSE IF features.numbered THEN "B-H3"
    ELSE "O"

\* the pages that have lines: _create_enhanced_training_data and
\* _prepare_enhanced_crf_features leave out the others
PagesWithLines(page_features) ==
    SelectSeq(page_features, LAMBDA page : page # <<>>)

\* crf_classifier.predict: the labels it was trained with, or "O" for
\* every line
crf_predict(X_test, predicts) ==
    [p \in 1..Len(X_test) |->
        [l \in 1..Len(X_test[p]) |->
            IF predicts = "as_trained" THEN rule_based_label(X_test[p][l])
            ELSE "O"]]

\* _convert_crf_predictions
convert_crf_predictions(predictions) ==
    [p \in 1..Len(predictions) |->
        [l \in 1..Len(predictions[p]) |->
            IF predictions[p][l] = "B-H1" THEN "H1"
            ELSE IF predictions[p][l] = "B-H2" THEN "H2"
            ELSE IF predictions[p][l] = "B-H3" THEN "H3"
            ELSE "P"]]

\* _classify_headings_enhanced; caught says that the exceptions of the CRF
\* steps are caught.  The value is [raised, labels].
ClassifyWith(page_features, crf, caught) ==
    LET rule_based == [raised |-> FALSE,
                       labels |-> rule_based_classification_enhanced(page_features)]
        failed == IF caught THEN rule_based ELSE [raised |-> TRUE, labels |-> <<>>]
        X_train == PagesWithLines(page_features)
    IN  IF page_features = <<>> THEN [raised |-> FALSE, labels |-> <<>>]
        ELSE IF ~crf.available THEN rule_based
        ELSE IF crf.raises = "training_data" THEN failed
        ELSE IF X_train = <<>> THEN rule_based
        ELSE IF crf.raises \in {"fit", "features", "predict"} THEN failed
        ELSE [raised |-> FALSE,
              labels |-> convert_crf_predictions(crf_predict(X_train, crf.predicts))]

\* an exception of the CRF leaves _classify_headings_enhanced
classify_headings_unguarded(page_features, crf) ==
    ClassifyWith(page_features, crf, FALSE)

classify_headings_enhanced(page_features, crf) ==
    ClassifyWith(page_features, crf, TRUE)

\* the lines as _build_enhanced_text_chunks pairs them with their labels:
\* zip() stops at the shorter of its arguments
LabelledPages(page_features, labels) ==
    [p \in 1..Min(Len(page_features), Len(labels)) |->
        [l \in 1..Min(Len(page_features[p]), Len(labels[p])) |->
            [class |-> labels[p][l], chars |-> page_features[p][l].chars]]]

\* get_text_chunks from stage 3 on, for a PDF without outline.  The value is
\* [path, labels, text_chunks]; the chunks of the two fallback extractions
\* are left out.
get_text_chunks_general(page_features, crf) ==
    IF \A p \in 1..Len(page_features) : page_features[p] = <<>>
    THEN [path |-> "fallback_text_extraction", labels |-> <<>>, text_chunks |-> <<>>]
    ELSE Strict(classify_headings_enhanced(page_features, crf),
           LAMBDA classified :
             IF classified.raised
             THEN [path |-> "simple_fallback_extraction", labels |-> <<>>,
                   text_chunks |-> <<>>]
             ELSE [path |-> "general", labels |-> classified.labels,
                   text_chunks |->
                       post_process_chunks(
                           build_enhanced_text_chunks(
                               LabelledPages(page_features, classified.labels)),
                           Len(page_features))])

\* lines: a title, a bold subtitle, a numbered line, a line of body text and
\* a short line in upper case that ends with a colon
FeatureLine(font_size, is_bold, numbered, upper, chars) ==
    [font_size |-> font_size, is_bold |-> is_bold, numbered |-> numbered,
     upper |-> upper, colon |-> upper, chars |-> chars]

TitleLine == FeatureLine(18, TRUE, FALSE, FALSE, 12)

SubtitleLine == FeatureLine(13, TRUE, FALSE, FALSE, 12)

NumberedLine == FeatureLine(12, FALSE, TRUE, FALSE, 20)

BodyLine == FeatureLine(12, FALSE, FALSE, FALSE, 60)

UpperLine == FeatureLine(12, FALSE, FALSE, TRUE, 4)

FeaturePages ==
    { <<>>, <<BodyLine>>, <<TitleLine, BodyLine>>, <<UpperLine, BodyLine>>,
      <<SubtitleLine, BodyLine, NumberedLine, BodyLine>> }

FeaturePageLists == UNION { [1..n -> FeaturePages] : n \in 1..MaxPages }

\* what the CRF does: sklearn_crfsuite is missing or there, a step raises or
\* none does, and a trained model repeats its training labels or finds no
\* heading
CrfOutcomes ==
    [available : BOOLEAN,
     raises : {"none", "training_data", "fit", "features", "predict"},
     predicts : {"as_trained", "no_heading"}]

\* one call of get_text_chunks on a PDF without outline
GetTextChunksGeneral ==
    /\ response = NoResponse
    /\ \E page_features \in FeaturePageLists, crf \in CrfOutcomes :
           LET r == get_text_chunks_general(page_features, crf)
           IN  response' = [op |-> "get_text_chunks_general",
                            page_features |-> page_features, crf |-> crf,
                            path |-> r.path, labels |-> r.labels,
                            text_chunks |-> r.text_chunks]
    /\ UNCHANGED <<thread_vars, embed_vars, documents, chunks, faiss_index,
                   faiss_disk, removed>>

NextClassify == GetTextChunksGeneral

SpecClassify == InitParse /\ [][NextClassify]_vars

\* the CRF is missing, or one of its steps raises
ClassifierFails(crf) == ~crf.available \/ crf.raises # "none"

\* C20: whenever the CRF is unavailable or its training or prediction
\* raises, the labels are those of the rule-based classifier, one for every
\* line, and get_text_chunks goes on with them on the general path.
C20_ClassifierFailureFallsBackToRules ==
    (/\ response.op = "get_text_chunks_general"
     /\ response.path # "fallback_text_extraction"
     /\ ClassifierFails(response.crf)) =>
        LET page_features == response.page_features
            rules == rule_based_classification_enhanced(page_features)
        IN  /\ response.path = "general"
            /\ response.labels = rules
            /\ Len(response.labels) = Len(page_features)
            /\ \A p \in 1..Len(page_features) :
                   Len(response.labels[p]) = Len(page_features[p])
            /\ response.text_chunks =
                   post_process_chunks(
                       build_enhanced_text_chunks(LabelledPages(page_features, rules)),
                       Len(page_features))

\* training has raised on a PDF with a title, and chunks have been built
C20_Witness ==
    /\ response.op = "get_text_chunks_general"
    /\ response.crf.available
    /\ response.crf.raises = "fit"
    /\ \E p \in 1..Len(response.labels) :
           \E l \in 1..Len(response.labels[p]) : response.labels[p][l] = "H1"
    /\ response.text_chunks # <<>>

----------------------------------------------------------------------------
(* Claims about the index and the chunk rows together (SpecStore).         *)

PositionedChunks(rows) ==
    { id \in ChunkIds(rows) : rows[id].faiss_index_position # NoPosition }

\* C15: in every state where no background task and no deletion is running
\* or waiting to run, the number of entries of the vector index equals the
\* number of stored chunks that have an index position.
C15_IndexEntriesMatchPositionedChunks ==
    (\A d \in DocIds : ~documents[d].task) =>
        Cardinality(LivePositions(faiss_index))
            = Cardinality(PositionedChunks(chunks))

----------------------------------------------------------------------------
(* Claims about the embedding cache (SpecEmbed).                           *)

\* after is before without its m oldest entries, followed by entries of new
\* keys; entries are dropped only when the cap is reached during the call
OldestDropped(before, after) ==
    \/ after = before
    \/ LET size == CacheLen(before)
       IN  \E k \in 0..Len(after) :
               LET kept == SubSeq(after, 1, k)
                   added == SubSeq(after, k + 1, Len(after))
                   m == size - CacheLen(kept)
               IN  /\ m >= 0
                   /\ kept = DropFirst(before, m)
                   /\ \A i \in 1..Len(added) :
                          /\ ~added[i].other
                          /\ added[i].key \notin CacheKeys(kept)
                          /\ \A j \in 1..Len(added) :
                                 added[j].key = added[i].key => j = i
                   /\ m > 0 => size + Len(added) >= cache_max_size

\* C16: after any sequence of create_embedding and create_embeddings_batch
\* calls the cache holds at most cache_max_size entries, and every call
\* leaves the cache as it was but for dropping its oldest-inserted entries
\* and adding new ones at the end; a hit changes nothing.
C16_CacheBoundedAndEvictsOldest ==
    [][/\ CacheLen(embedding_cache') <= cache_max_size
       /\ OldestDropped(embedding_cache, embedding_cache')
       /\ (last'.op = "create" /\ last'.hit) => embedding_cache' = embedding_cache]_vars

\* a call has found the cache at its cap and dropped the oldest entries
C16_Witness ==
    /\ last.op \in {"create", "batch"}
    /\ CacheLen(embedding_cache) = cache_max_size - evict_count + 1

\* the vectors stored in the index for the chunks of document d
VectorsOf(d) ==
    { faiss_index[p + 1].vector :
        p \in { q \in LivePositions(faiss_index) :
                   faiss_index[q + 1].metadata.document_id = d } }

\* C19: a document for which placeholder (zero) vectors were used for at
\* least one chunk never ends in status "ready" without a marker that the
\* embedding result is partial.  The Document row has no such marker
\* (update_document_status, processing_metadata), so: no document whose
\* stored vectors include the placeholder is "ready".
C19_NoReadyDocumentWithPlaceholders ==
    \A d \in DocIds :
        documents[d].status = "ready" => ZeroVec \notin VectorsOf(d)

----------------------------------------------------------------------------
(* The first uses of the embedding service and the calls of its model, by  *)
(* threads that are switched between any two statements.  A thread is the  *)
(* background initializer started at startup (initialize_services_         *)
(* background) or serves a request: get_embedding_service(), then          *)
(* create_embedding or create_embeddings_batch on at most                  *)
(* large_batch_threshold texts.  Neither class EmbeddingService nor        *)
(* get_embedding_service takes a lock; initialize_services_eagerly takes   *)
(* _initialization_lock.  A cache dict is kept as the set of its keys.     *)

\* the texts of a call: create_embedding("a"), and the batches ["a"] and
\* ["a", "b"]
CallTexts == { << <<97>> >>, << <<97>>, <<98>> >> }

Goto(t, pc) == [threads EXCEPT ![t].pc = pc]

\* main.py at startup: initialize_services_background starts the thread once
StartBackground(t) ==
    /\ threads[t].pc = "idle"
    /\ ~shared.background
    /\ shared' = [shared EXCEPT !.background = TRUE]
    /\ threads' = [threads EXCEPT ![t].pc = "eager", ![t].role = "background"]
    /\ UNCHANGED <<embed_vars, index_vars>>

\* initialize_services_eagerly: if _services_initialized: return
EagerCheck(t) ==
    /\ threads[t].pc = "eager"
    /\ threads' = Goto(t, IF shared.services_initialized THEN "done" ELSE "acquire")
    /\ UNCHANGED shared
    /\ UNCHANGED <<embed_vars, index_vars>>

\* with _initialization_lock:
EagerAcquire(t) ==
    /\ threads[t].pc = "acquire"
    /\ shared.initialization_lock = 0
    /\ shared' = [shared EXCEPT !.initialization_lock = t]
    /\ threads' = Goto(t, "recheck")
    /\ UNCHANGED <<embed_vars, index_vars>>

\* if _services_initialized: return (inside the lock), else the services
\* are initialized in order
EagerRecheck(t) ==
    /\ threads[t].pc = "recheck"
    /\ IF shared.services_initialized
       THEN /\ shared' = [shared EXCEPT !.initialization_lock = 0]
            /\ threads' = Goto(t, "done")
       ELSE /\ threads' = Goto(t, "get")
            /\ UNCHANGED shared
    /\ UNCHANGED <<embed_vars, index_vars>>

\* a request is served by thread t: it asks for the service first
StartRequest(t) ==
    /\ threads[t].pc = "idle"
    /\ \E texts \in CallTexts :
           threads' = [threads EXCEPT ![t].pc = "get", ![t].role = "request",
                                      ![t].texts = texts]
    /\ UNCHANGED shared
    /\ UNCHANGED <<embed_vars, index_vars>>

\* what is done with the service once get_embedding_service has returned it
Served(t, service) ==
    [threads EXCEPT ![t].service = service,
                    ![t].cache = shared.objects[service].cache,
                    ![t].pc = IF threads[t].role = "background"
                              THEN "initialized" ELSE "call"]

\* get_embedding_service: if _embedding_service is None
GetEmbeddingService(t) ==
    /\ threads[t].pc = "get"
    /\ threads' = IF shared.embedding_service = NoObject
                  THEN Goto(t, "new")
                  ELSE Served(t, shared.embedding_service)
    /\ UNCHANGED shared
    /\ UNCHANGED <<embed_vars, index_vars>>

\* EmbeddingService.__new__: if cls._instance is None
NewTest(t) ==
    /\ threads[t].pc = "new"
    /\ threads' = Goto(t, IF shared.instance = NoObject THEN "new_set" ELSE "new_return")
    /\ UNCHANGED shared
    /\ UNCHANGED <<embed_vars, index_vars>>

\* cls._instance = super().__new__(cls)
NewSet(t) ==
    /\ threads[t].pc = "new_set"
    /\ shared' = [shared EXCEPT
                      !.objects = Append(@, [model |-> FALSE, cache |-> 0]),
                      !.instance = Len(shared.objects) + 1]
    /\ threads' = Goto(t, "new_return")
    /\ UNCHANGED <<embed_vars, index_vars>>

\* return cls._instance, and __init__ is entered with it
NewReturn(t) ==
    /\ threads[t].pc = "new_return"
    /\ threads' = [threads EXCEPT ![t].self = shared.instance, ![t].pc = "init"]
    /\ UNCHANGED shared
    /\ UNCHANGED <<embed_vars, index_vars>>

\* EmbeddingService.__init__: if not self._initialized
InitTest(t) ==
    /\ threads[t].pc = "init"
    /\ threads' = Goto(t, IF shared.initialized THEN "assign" ELSE "init_attributes")
    /\ UNCHANGED shared
    /\ UNCHANGED <<embed_vars, index_vars>>

\* self.model = None; self.embedding_cache = {}
InitAttributes(t) ==
    /\ threads[t].pc = "init_attributes"
    /\ shared' = [shared EXCEPT
                      !.dicts = Append(@, {}),
                      !.objects[threads[t].self] =
                          [model |-> FALSE, cache |-> Len(shared.dicts) + 1]]
    /\ threads' = Goto(t, "load_model")
    /\ UNCHANGED <<embed_vars, index_vars>>

\* self._load_model() is entered: SentenceTransformer(self.model_name)
LoadModel(t) ==
    /\ threads[t].pc = "load_model"
    /\ shared' = [shared EXCEPT !.loads = @ + 1]
    /\ threads' = Goto(t, "loading")
    /\ UNCHANGED <<embed_vars, index_vars>>

\* the model is loaded and self.model set, or the exception leaves
\* self.model None
ModelLoaded(t) ==
    /\ threads[t].pc = "loading"
    /\ \E loaded \in BOOLEAN :
           shared' = [shared EXCEPT !.objects[threads[t].self].model = loaded]
    /\ threads' = Goto(t, "init_done")
    /\ UNCHANGED <<embed_vars, index_vars>>

\* EmbeddingService._initialized = True
InitDone(t) ==
    /\ threads[t].pc = "init_done"
    /\ shared' = [shared EXCEPT !.initialized = TRUE]
    /\ threads' = Goto(t, "assign")
    /\ UNCHANGED <<embed_vars, index_vars>>

\* _embedding_service = EmbeddingService(); return _embedding_service
AssignService(t) ==
    /\ threads[t].pc = "assign"
    /\ shared' = [shared EXCEPT !.embedding_service = threads[t].self]
    /\ threads' = Served(t, threads[t].self)
    /\ UNCHANGED <<embed_vars, index_vars>>

\* initialize_services_eagerly: _services_initialized = True, and the lock
\* is released
EagerDone(t) ==
    /\ threads[t].pc = "initialized"
    /\ shared' = [shared EXCEPT !.services_initialized = TRUE,
                                !.initialization_lock = 0]
    /\ threads' = Goto(t, "done")
    /\ UNCHANGED <<embed_vars, index_vars>>

\* the texts of the call of thread t that are not in the cache
Uncached(t) ==
    LET object == shared.objects[threads[t].service]
    IN  { threads[t].texts[i] : i \in 1..Len(threads[t].texts) }
            \ shared.dicts[object.cache]

\* create_embedding and _process_embedding_batch up to model.encode: the
\* placeholder when self.model is None, the cached vectors when every text
\* is in the cache, else model.encode is entered
CallModel(t) ==
    /\ threads[t].pc = "call"
    /\ threads' = Goto(t, IF ~shared.objects[threads[t].service].model
                              \/ Uncached(t) = {}
                          THEN "done" ELSE "encode")
    /\ UNCHANGED shared
    /\ UNCHANGED <<embed_vars, index_vars>>

\* model.encode returns and its vectors are put in the cache, or it raises
EncodeReturns(t) ==
    /\ threads[t].pc = "encode"
    /\ \E fail \in BOOLEAN :
           LET cache == shared.objects[threads[t].service].cache
           IN  shared' = IF fail THEN shared
                         ELSE [shared EXCEPT
                                  !.dicts[cache] = @ \cup
                                      { get_text_hash(threads[t].texts[i]) :
                                          i \in 1..Len(threads[t].texts) }]
    /\ threads' = Goto(t, "done")
    /\ UNCHANGED <<embed_vars, index_vars>>

ThreadStep(t) ==
    \/ StartBackground(t)
    \/ EagerCheck(t)
    \/ EagerAcquire(t)
    \/ EagerRecheck(t)
    \/ StartRequest(t)
    \/ GetEmbeddingService(t)
    \/ NewTest(t)
    \/ NewSet(t)
    \/ NewReturn(t)
    \/ InitTest(t)
    \/ InitAttributes(t)
    \/ LoadModel(t)
    \/ ModelLoaded(t)
    \/ InitDone(t)
    \/ AssignService(t)
    \/ EagerDone(t)
    \/ CallModel(t)
    \/ EncodeReturns(t)

NextThreads == \E t \in Threads : ThreadStep(t)

InitThreads ==
    /\ model_loaded = FALSE
    /\ embedding_cache = <<>>
    /\ last = NoCall
    /\ watched = TextList[1]
    /\ first_vec = NoVec
    /\ IndexIdle
    /\ ThreadsIdle

SpecThreads == InitThreads /\ [][NextThreads]_vars

----------------------------------------------------------------------------
(* Claims about the threads (SpecThreads).                                 *)

\* the threads inside model.encode
InEncode == { t \in Threads : threads[t].pc = "encode" }

\* C17: when create_embedding and create_embeddings_batch are called from
\* several threads, at most one thread is inside model.encode at any time.
C17_OneThreadInEncode == Cardinality(InEncode) <= 1

\* the threads that get_embedding_service has returned the service to
HasService == { t \in Threads : threads[t].service # NoObject }

\* the threads that serve requests
RequestThreads == { t \in Threads : threads[t].role = "request" }

\* C18: under any interleaving of first uses the model is loaded at most
\* once, and all callers get the same instance with the same cache.  Stated
\* of the background initializer and one thread that serves requests, which
\* are the threads of the process as it is deployed.
C18_LoadedOnceAndShared ==
    Cardinality(RequestThreads) <= 1 =>
        /\ shared.loads <= 1
        /\ \A t1, t2 \in HasService :
               /\ threads[t1].service = threads[t2].service
               /\ threads[t1].cache = threads[t2].cache
        /\ \A t1 \in HasService :
               shared.objects[threads[t1].service].cache = threads[t1].cache

----------------------------------------------------------------------------
(* get_text_chunks with the failures of the extractors.  The environment   *)
(* of a call says which library is installed and which call raises:        *)
(* toc_check is doc.get_toc() of _check_embedded_toc_from_bytes,           *)
(* toc_extract the reading of the pages in _extract_chunks_from_toc, fitz  *)
(* the extraction of the pages with PyMuPDF, pipeline the stages 3 to 6,   *)
(* and pdfminer the linear-text extractor.  A call returns its chunks with *)
(* the extractors it has attempted and the ones that have failed.          *)

\* _extract_with_pdfminer_fallback_from_bytes: the pages, or none
extract_with_pdfminer_fallback_from_bytes(pages, env) ==
    IF env.pdfminer = "pages" THEN pages ELSE <<>>

\* _extract_text_with_metadata_from_bytes
extract_text_with_metadata_from_bytes(pages, env) ==
    IF env.fitz = "ok" THEN pages
    ELSE extract_with_pdfminer_fallback_from_bytes(pages, env)

\* the page chunks of _simple_fallback_extraction from page p on
RECURSIVE SimpleChunksFrom(_, _)
SimpleChunksFrom(pages, p) ==
    IF p >= Len(pages) THEN <<>>
    ELSE (IF pages[p + 1] = <<>> THEN <<>>
          ELSE << [page_number |-> p,
                   lines |-> LinesOfPage(pages, p),
                   chars |-> JoinedChars(pages[p + 1]),
                   section_title |-> [kind |-> "page_content", page |-> p + 1],
                   chunk_type |-> "fallback",
                   extraction_method |-> "simple_fallback"] >>)
         \o SimpleChunksFrom(pages, p + 1)

simple_fallback_extraction(pages, env) ==
    SimpleChunksFrom(extract_with_pdfminer_fallback_from_bytes(pages, env), 0)

\* _check_embedded_toc_from_bytes: the outline, or none
check_embedded_toc_from_bytes(pdf, env) ==
    IF env.fitz = "missing" \/ env.toc_check = "raises" THEN <<>> ELSE pdf.toc

\* get_text_chunks: [text_chunks, attempted, failed]
get_text_chunks_extraction(pdf, env) ==
    LET embedded_toc == check_embedded_toc_from_bytes(pdf, env)
        pages_data == extract_text_with_metadata_from_bytes(pdf.pages, env)
        primary == IF env.fitz = "missing" THEN {} ELSE {"fitz"}
        primary_failed == IF env.fitz = "raises" THEN {"fitz"} ELSE {}
        linear == IF env.pdfminer = "missing" THEN {} ELSE {"pdfminer"}
        linear_failed == IF env.pdfminer = "raises" THEN {"pdfminer"} ELSE {}
    IN  IF embedded_toc # <<>>
        THEN IF env.toc_extract = "raises"
             THEN [text_chunks |-> <<>>, attempted |-> {"toc"}, failed |-> {"toc"}]
             ELSE [text_chunks |-> extract_chunks_from_toc(pdf.pages, embedded_toc),
                   attempted |-> {"toc"}, failed |-> {}]
        ELSE IF pages_data = <<>>
        THEN [text_chunks |-> <<>>, attempted |-> primary \cup linear,
              failed |-> primary_failed \cup linear_failed]
        ELSE IF env.pipeline = "raises"
        THEN [text_chunks |-> simple_fallback_extraction(pdf.pages, env),
              attempted |-> primary \cup {"pipeline"} \cup linear,
              failed |-> primary_failed \cup {"pipeline"} \cup linear_failed]
        ELSE [text_chunks |-> get_text_chunks([pages |-> pages_data, toc |-> <<>>]),
              attempted |-> primary \cup {"pipeline"}
                            \cup (IF env.fitz = "ok" THEN {} ELSE linear),
              failed |-> primary_failed]

\* the environments of a call
Environments ==
    [toc_check : {"ok", "raises"}, toc_extract : {"ok", "raises"},
     fitz : {"ok", "raises", "missing"}, pipeline : {"ok", "raises"},
     pdfminer : {"pages", "raises", "missing", "empty"}]

\* the outlines of the calls: none, or one entry of the first page
ExtractionTocs == { <<>>, << [level |-> 1, page_num |-> 1] >> }

GetTextChunksExtraction ==
    /\ response = NoResponse
    /\ \E pages \in PageLists, toc \in ExtractionTocs, env \in Environments :
           LET pdf == [pages |-> pages, toc |-> toc]
               result == get_text_chunks_extraction(pdf, env)
           IN  response' = [op |-> "get_text_chunks_extraction", pdf |-> pdf,
                            env |-> env,
                            text_chunks |-> result.text_chunks,
                            attempted |-> result.attempted,
                            failed |-> result.failed]
    /\ UNCHANGED <<thread_vars, embed_vars, documents, chunks, faiss_index, faiss_disk, removed>>

NextExtract == GetTextChunksExtraction

SpecExtract == InitParse /\ [][NextExtract]_vars

\* the extractors of the primary extraction
PrimaryExtractors == {"toc", "fitz", "pipeline"}

\* C21: a call of get_text_chunks in which the primary extraction fails,
\* the extraction of the chunks of the embedded outline included, attempts
\* the linear-text extractor before it returns, so that the result is empty
\* because of a failure only when that extractor has failed as well.
C21_FallbackAttemptedBeforeEmptyResult ==
    (/\ response.op = "get_text_chunks_extraction"
     /\ response.failed \cap PrimaryExtractors # {}
     /\ response.env.pdfminer # "missing")
        => "pdfminer" \in response.attempted

----------------------------------------------------------------------------
(* The suppression of headers and footers (_filter_headers_footers).  A    *)
(* page is the sequence of its text blocks; a block is [text, y_top,       *)
(* y_bottom, page_height], its text [word, caps, chars]: the word as it    *)
(* reads in lower case, whether it is written in capitals, and its length. *)

\* text.lower()
Lower(text) == [text EXCEPT !.caps = FALSE]

\* y_top_ratio < 0.15
is_potential_header(block) == 100 * block.y_top < 15 * block.page_height

\* y_bottom_ratio > 0.85
is_potential_footer(block) == 100 * block.y_bottom > 85 * block.page_height

\* a text shorter than this is not counted
MinRecurringLength == 3

\* the candidate blocks of a page that are counted for the text
CountedBlocks(page, text) ==
    SelectSeq(page, LAMBDA block :
        /\ is_potential_header(block) \/ is_potential_footer(block)
        /\ Lower(block.text) = text
        /\ text.chars > MinRecurringLength)

\* text_frequency[text] over the pages from page p on
RECURSIVE text_frequency(_, _, _)
text_frequency(pages, text, p) ==
    IF p > Len(pages) THEN 0
    ELSE Len(CountedBlocks(pages[p], text)) + text_frequency(pages, text, p + 1)

\* the texts of the blocks of the pages, in lower case
LowerTexts(pages) ==
    UNION { { Lower(pages[p][b].text) : b \in 1..Len(pages[p]) } : p \in 1..Len(pages) }

\* max(2, int(total_pages * 0.4))
recurring_threshold(total_pages) == Max(2, (total_pages * 4) \div 10)

\* recurring_texts
recurring_texts(pages) ==
    { text \in LowerTexts(pages) :
        text_frequency(pages, text, 1) >= recurring_threshold(Len(pages)) }

\* _filter_headers_footers
filter_headers_footers(pages) ==
    IF Len(pages) < 2 THEN pages
    ELSE LET recurring == recurring_texts(pages)
         IN  [p \in 1..Len(pages) |->
                 SelectSeq(pages[p], LAMBDA block : Lower(block.text) \notin recurring)]

\* the number of pages of a document given to the filter
MaxFilterPages == 3

\* the height of a page, in points
PageHeight == 792

TextBlock(word, caps, chars, y_top, y_bottom) ==
    [text |-> [word |-> word, caps |-> caps, chars |-> chars],
     y_top |-> y_top, y_bottom |-> y_bottom, page_height |-> PageHeight]

\* the pages: empty; a running title at the top; the same title in capitals;
\* the title at the top and at the bottom of one page; the title as a line
\* of the body; a page number of three characters at the top; a block that
\* begins below 15% and ends above 85% of the height
FilterPages ==
    { <<>>,
      << TextBlock("title", FALSE, 12, 40, 80), TextBlock("body", FALSE, 60, 300, 480) >>,
      << TextBlock("title", TRUE, 12, 40, 80) >>,
      << TextBlock("title", FALSE, 12, 40, 80), TextBlock("title", FALSE, 12, 712, 752) >>,
      << TextBlock("title", FALSE, 12, 300, 480) >>,
      << TextBlock("p.1", FALSE, 3, 40, 80) >>,
      << TextBlock("frame", FALSE, 5, 119, 673) >> }

FilterPageLists == UNION { [1..n -> FilterPages] : n \in 1..MaxFilterPages }

FilterHeadersFooters ==
    /\ response = NoResponse
    /\ \E pages \in FilterPageLists :
           response' = [op |-> "filter_headers_footers", pages |-> pages,
                        filtered |-> filter_headers_footers(pages)]
    /\ UNCHANGED <<thread_vars, embed_vars, documents, chunks, faiss_index, faiss_disk, removed>>

NextFilter == FilterHeadersFooters

SpecFilter == InitParse /\ [][NextFilter]_vars

\* the pages (from 1) on which the text stands at the top or at the bottom
CandidatePages(pages, text) ==
    { p \in 1..Len(pages) :
        \E b \in 1..Len(pages[p]) :
            /\ Lower(pages[p][b].text) = text
            /\ is_potential_header(pages[p][b]) \/ is_potential_footer(pages[p][b]) }

\* some block with the text was taken out of some page
RemovedText(pages, filtered, text) ==
    \E p \in 1..Len(pages) :
        \E b \in 1..Len(pages[p]) :
            /\ Lower(pages[p][b].text) = text
            /\ \A k \in 1..Len(filtered[p]) : Lower(filtered[p][k].text) # text

\* no block with the text is left on any page
RemovedFromAllPages(filtered, text) ==
    \A p \in 1..Len(filtered) :
        \A k \in 1..Len(filtered[p]) : Lower(filtered[p][k].text) # text

\* C22: a text is removed only if it is longer than 3 characters and stands
\* at the top or at the bottom of at least 40% of the pages, compared
\* without regard to case; a text that stands so on at least two pages and
\* on at least 40% of the pages is removed from all pages.
C22_RemovedIffRecurringOnFortyPercent ==
    response.op = "filter_headers_footers" =>
        \A text \in LowerTexts(response.pages) :
            LET on_pages == Cardinality(CandidatePages(response.pages, text))
                total == Len(response.pages)
            IN  /\ RemovedText(response.pages, response.filtered, text) =>
                       /\ text.chars > MinRecurringLength
                       /\ 10 * on_pages >= 4 * total
                /\ (/\ text.chars > MinRecurringLength
                    /\ on_pages >= 2
                    /\ 10 * on_pages >= 4 * total) =>
                        RemovedFromAllPages(response.filtered, text)

----------------------------------------------------------------------------
(* The rule-based classifier of one line (_classify_line_rule_based).  The *)
(* features of a line are a record; relative_font_size and                 *)
(* space_before_ratio are in tenths.  Of the text the record has what the  *)
(* code reads of it: char_count, bare_number (the text is a number and     *)
(* nothing else), number_parts (the parts of the dotted number the text    *)
(* starts with, 0 for none) and form_field (_is_likely_form_field).        *)

MIN_HEADING_SCORE == 8

\* the least score of a heading of lower confidence
LowHeadingScore == 6

MAX_TITLE_LENGTH == 200

\* a text of at most this many characters is a paragraph
ShortTextLength == 3

\* the heading_score of a line that is not returned as 'P' before scoring
heading_score(features) ==
    (IF features.relative_font_size >= 15 THEN 4
     ELSE IF features.relative_font_size >= 13 THEN 3
     ELSE IF features.relative_font_size >= 11 THEN 1 ELSE 0)
    + (IF features.font_size_rank <= 2 THEN 3
       ELSE IF features.font_size_rank <= 3 THEN 2 ELSE 0)
    + (IF features.is_bold THEN 3 ELSE 0)
    + (IF features.is_centered THEN 2 ELSE 0)
    + (IF features.space_before_ratio >= 20 THEN 3
       ELSE IF features.space_before_ratio >= 15 THEN 2 ELSE 0)
    + (IF features.has_numeric_prefix
       THEN (IF ~features.form_field THEN 4 ELSE -2) ELSE 0)
    + (IF features.is_chapter_heading THEN 4 ELSE 0)
    + (IF features.is_appendix THEN 3 ELSE 0)
    + (IF ~features.ends_with_punct THEN 1 ELSE 0)
    + (IF 5 <= features.char_count /\ features.char_count <= 80 THEN 1
       ELSE IF features.char_count > 150 THEN -2 ELSE 0)

\* _determine_heading_level; the parameter default is not read by the code
determine_heading_level(features, default) ==
    IF features.number_parts = 1 THEN "H1"
    ELSE IF features.number_parts = 2 THEN "H2"
    ELSE IF features.number_parts > 2 THEN "H3"
    ELSE IF \/ features.relative_font_size >= 18
            \/ features.font_size_rank = 1
            \/ features.is_centered THEN "H1"
    ELSE IF features.relative_font_size >= 14 \/ features.font_size_rank <= 2 THEN "H2"
    ELSE "H3"

\* the line is returned as 'P' before it is scored
ReturnedUnscored(features) ==
    \/ features.char_count = 0
    \/ features.char_count > MAX_TITLE_LENGTH
    \/ features.char_count <= ShortTextLength
    \/ features.bare_number

classify_line_rule_based(features) ==
    IF ReturnedUnscored(features) THEN "P"
    ELSE IF heading_score(features) >= MIN_HEADING_SCORE
    THEN determine_heading_level(features, "H2")
    ELSE IF heading_score(features) >= LowHeadingScore
    THEN determine_heading_level(features, "H3")
    ELSE "P"

\* the lines given to the classifier: a text that starts with a number has
\* number_parts, and it has a numeric prefix when a dot, a bracket or a
\* space follows the number; only such a text is a form field here, and a
\* chapter heading starts with a word
LineFeatures ==
    { f \in [relative_font_size : {10, 11, 13, 15, 18},
             font_size_rank : {1, 2, 3, 10},
             is_bold : BOOLEAN, is_centered : BOOLEAN,
             space_before_ratio : {0, 15, 20},
             has_numeric_prefix : BOOLEAN, number_parts : 0..3,
             form_field : BOOLEAN, bare_number : BOOLEAN,
             is_chapter_heading : BOOLEAN, is_appendix : {FALSE},
             ends_with_punct : BOOLEAN, char_count : {3, 40, 160}] :
        /\ f.has_numeric_prefix => f.number_parts >= 1
        /\ f.form_field => f.has_numeric_prefix /\ f.char_count < 50
        /\ f.bare_number => f.number_parts = 1 /\ ~f.form_field /\ f.char_count = 3
        /\ f.is_chapter_heading => f.number_parts = 0 }

ClassifyLineRuleBased ==
    /\ response = NoResponse
    /\ \E features \in LineFeatures :
           response' = [op |-> "classify_line_rule_based", features |-> features,
                        label |-> classify_line_rule_based(features)]
    /\ UNCHANGED <<thread_vars, embed_vars, documents, chunks, faiss_index, faiss_disk, removed>>

NextRules == ClassifyLineRuleBased

SpecRules == InitParse /\ [][NextRules]_vars

\* the level by the depth of the numeric prefix if the text has one, else
\* by the tiers of font rank and centering
LevelByPrefixOrTiers(features) ==
    IF features.number_parts >= 1
    THEN (IF features.number_parts = 1 THEN "H1"
          ELSE IF features.number_parts = 2 THEN "H2" ELSE "H3")
    ELSE IF \/ features.relative_font_size >= 18
            \/ features.font_size_rank = 1
            \/ features.is_centered THEN "H1"
    ELSE IF features.relative_font_size >= 14 \/ features.font_size_rank <= 2 THEN "H2"
    ELSE "H3"

\* C23: a scored line of score 6 or 7 is labelled H3; one of score 8 or
\* more gets its level from the depth of its numeric prefix, or from the
\* font and centering tiers without one; one of score below 6 is labelled
\* P, as is every line that is not scored.
C23_ScoreDecidesLabel ==
    response.op = "classify_line_rule_based" =>
        LET features == response.features
            score == heading_score(features)
        IN  IF ReturnedUnscored(features) \/ score < LowHeadingScore
            THEN response.label = "P"
            ELSE IF score < MIN_HEADING_SCORE
            THEN response.label = "H3"
            ELSE response.label = LevelByPrefixOrTiers(features)

----------------------------------------------------------------------------
(* Claims about the result of get_text_chunks without chunks (SpecParse).  *)

\* what stages 5 and 6 of get_text_chunks make of the pages
GeneralPathChunks(pdf) ==
    post_process_chunks(build_enhanced_text_chunks(pdf.pages), Len(pdf.pages))

\* the pages (from 0) that have text
PagesWithText(pages) == { p \in 0..(Len(pages) - 1) : pages[p + 1] # <<>> }

\* C24: when the general path makes no chunk of a document without outline
\* whose pages have text, get_text_chunks returns the page-based chunks,
\* one for every page with text, and not the empty list.
C24_PageChunksWhenGeneralPathIsEmpty ==
    (/\ response.op = "get_text_chunks"
     /\ response.pdf.toc = <<>>
     /\ PagesWithText(response.pdf.pages) # {}
     /\ GeneralPathChunks(response.pdf) = <<>>)
        => /\ Len(response.text_chunks) = Cardinality(PagesWithText(response.pdf.pages))
           /\ \A p \in PagesWithText(response.pdf.pages) :
                  \E i \in 1..Len(response.text_chunks) :
                      response.text_chunks[i].page_number = p

----------------------------------------------------------------------------
(* extract_semantic_content called on chunks of its own, as                *)
(* find_similar_content and the search endpoint call it.                   *)

\* the texts of the chunks: "a", "b" and " "
RankTexts == { <<97>>, <<98>>, <<SP>> }

\* the number of chunks of a call
MaxRankChunks == 2

RankChunkLists ==
    UNION { [1..n -> [text_chunk : RankTexts, chunk_type : {"content", "H1"}]]
            : n \in 1..MaxRankChunks }

\* the thresholds of the calls, in hundredths
RankThresholds == {NoThreshold, 0, 10, 20, 30, 50, 100}

ExtractSemanticContent ==
    /\ response = NoResponse
    /\ \E listed \in RankChunkLists, query \in Queries, query_threshold \in RankThresholds :
           LET document_chunks ==
                   [i \in 1..Len(listed) |->
                       [chunk_id |-> i, document_id |-> 1,
                        text_chunk |-> listed[i].text_chunk,
                        chunk_type |-> listed[i].chunk_type]]
               r == extract_semantic_content(model_loaded, embedding_cache,
                        document_chunks, query, Len(document_chunks),
                        query_threshold, FALSE, FALSE)
           IN  /\ embedding_cache' = r.cache
               /\ response' = [op |-> "extract_semantic_content",
                               document_chunks |-> document_chunks,
                               query |-> query,
                               query_threshold |-> query_threshold,
                               ret |-> r.ret]
    /\ UNCHANGED <<thread_vars, model_loaded, last, watched, first_vec, documents,
                   chunks, faiss_index, faiss_disk, removed>>

NextRank == ExtractSemanticContent

SpecRank == InitParse /\ [][NextRank]_vars

\* the raw similarities of the chunks of the call to its query, as the call
\* computes them from the empty cache it starts with
RawSimilarities(call) ==
    LET q == create_embedding(TRUE, <<>>, call.query, FALSE)
        c == create_embeddings_batch(TRUE, q.cache,
                 [i \in 1..Len(call.document_chunks) |->
                     call.document_chunks[i].text_chunk], {})
    IN  calculate_similarities(q.ret, c.ret)

\* the threshold a call names, or the one of the service
NominalThreshold(call) ==
    IF call.query_threshold # NoThreshold THEN call.query_threshold
    ELSE DefaultSimilarityThreshold

\* C25: the threshold that admits a chunk is 40% of the nominal threshold
\* and at least 0.1: a chunk is among the results, of which the call takes
\* as many as there are chunks, exactly if its raw similarity is at least
\* max(0.4 * threshold, 0.1).
C25_AdmittedAtFortyPercentOfThreshold ==
    response.op = "extract_semantic_content" =>
        \A i \in 1..Len(response.document_chunks) :
            (RawSimilarities(response)[i] >= Max((NominalThreshold(response) * 4) \div 10, 10))
                <=> (\E n \in 1..Len(response.ret) : response.ret[n].chunk_id = i)

----------------------------------------------------------------------------
(* Claims about the vectors of the calls and the cache (SpecEmbed).        *)

\* the vector create_embedding returns for the text from an empty cache
UncachedVector(text) == create_embedding(TRUE, <<>>, text, FALSE).ret

\* C26: the vector a call returns for a text depends on the text only and
\* not on the cache or on the call: with the model loaded and no failure of
\* the model, create_embedding and create_embeddings_batch return for every
\* text, the blank ones included, the vector create_embedding returns for
\* it from an empty cache.
C26_VectorDependsOnTextOnly ==
    /\ (last.op = "create" /\ last.loaded /\ last.ret # EmptyVec)
           => last.ret = UncachedVector(last.text)
    /\ (last.op = "batch" /\ last.loaded /\ last.failed = {}
            /\ Len(last.rets) = Len(last.texts))
           => \A i \in 1..Len(last.texts) : last.rets[i] = UncachedVector(last.texts[i])

----------------------------------------------------------------------------
(* Claims about the labels of the heading classifier (SpecClassify).       *)

\* C27: on the general path the classifier returns one list of labels for
\* every page, in the order of the pages, with one label for every line of
\* the page, also for a page without lines and also when the trained CRF
\* predicts, so that the chunk builder pairs every line with its own label.
C27_OneLabelListPerPage ==
    (response.op = "get_text_chunks_general" /\ response.path = "general") =>
        /\ Len(response.labels) = Len(response.page_features)
        /\ \A p \in 1..Len(response.page_features) :
               Len(response.labels[p]) = Len(response.page_features[p])

----------------------------------------------------------------------------
(* The background task with a failure in any one of its steps.             *)

NoFault ==
    [services |-> "ok", rejected |-> {}, fails |-> {}, index_add |-> "ok",
     unstored |-> {}, analysis |-> "ok"]

\* what goes wrong in a run: nothing; get_services raises; no row or not
\* every row can be created; model.encode raises on the first batch; the
\* index returns no positions or raises; the position of the first chunk
\* cannot be written; the structure analysis raises
StepFaults ==
    { NoFault,
      [NoFault EXCEPT !.services = "raises"],
      [NoFault EXCEPT !.rejected = 1..Len(ParsedChunkList)],
      [NoFault EXCEPT !.rejected = {2}],
      [NoFault EXCEPT !.fails = {1}],
      [NoFault EXCEPT !.index_add = "empty"],
      [NoFault EXCEPT !.index_add = "raises"],
      [NoFault EXCEPT !.unstored = {1}],
      [NoFault EXCEPT !.analysis = "raises"] }

\* the background task of an uploaded document runs, and one of its steps
\* may fail
ProcessDocumentBackgroundFaulty ==
    \E d \in DocIds :
        /\ documents[d].task
        /\ \E parsed \in ParseOutcomes, fault \in StepFaults :
               LET r == process_document_background_faulty(model_loaded,
                            embedding_cache, chunks, faiss_index, d, parsed, fault)
               IN  /\ documents' = [update_document_status(documents, d, r.status)
                                       EXCEPT ![d].task = FALSE]
                   /\ chunks' = r.chunks
                   /\ embedding_cache' = r.cache
                   /\ faiss_index' = r.index
                   /\ faiss_disk' = Persisted(r.index)
                   /\ response' = [op |-> "process_document_background",
                                   document_id |-> d, parsed |-> parsed,
                                   faults |-> fault]
        /\ UNCHANGED <<thread_vars, model_loaded, last, watched, first_vec, removed>>

NextTask == ProcessDocumentBackgroundFaulty

SpecTask == InitStore /\ [][NextTask]_vars

\* C28: every run of process_document_background ends with the status of
\* its document set to "ready" or "error", whichever of its steps has
\* failed: no document whose task has run is still "processing".
C28_NoRunEndsInProcessing ==
    \A d \in DocIds :
        ~documents[d].task => documents[d].status \in {"ready", "error"}

\* the index has raised in step 4 of a run, after the rows of the chunks
\* were stored, and the document is in error
C28_Witness ==
    /\ response.op = "process_document_background"
    /\ response.faults.index_add = "raises"
    /\ ~documents[response.document_id].task
    /\ documents[response.document_id].status = "error"
    /\ \E id \in ChunkIds(chunks) : chunks[id].document_id = response.document_id

----------------------------------------------------------------------------
(* Claims about the documents that are ready (SpecStore).                  *)

\* the rows of the chunks stored for document d
ChunksOf(rows, d) == { id \in ChunkIds(rows) : rows[id].document_id = d }

\* C29: whenever a document is "ready", every chunk stored for it has an
\* index position, and it is the position the index gave to the vector of
\* that chunk: the entry at the position is the entry of the chunk.
C29_ReadyChunksHavePositions ==
    \A d \in DocIds :
        documents[d].status = "ready" =>
            \A id \in ChunksOf(chunks, d) :
                /\ chunks[id].faiss_index_position # NoPosition
                /\ chunks[id].faiss_index_position \in Positions(faiss_index)
                /\ faiss_index[chunks[id].faiss_index_position + 1].metadata.chunk_id = id

----------------------------------------------------------------------------
(* POST /documents/{document_id}/reprocess.  The value is [status,         *)
(* documents]: the status code of the answer and the Document rows.        *)

reprocess_document(docs, document_id) ==
    IF docs[document_id].status = "deleted"
    THEN [status |-> 404, documents |-> docs]
    ELSE [status |-> 501,
          documents |-> update_document_status(docs, document_id, "processing")]

ReprocessDocument ==
    \E document_id \in DocIds :
        LET r == reprocess_document(documents, document_id)
        IN  /\ documents' = r.documents
            /\ response' = [op |-> "reprocess_document", document_id |-> document_id,
                            status |-> r.status,
                            status_before |-> documents[document_id].status]
            /\ UNCHANGED <<thread_vars, embed_vars, chunks, faiss_index, faiss_disk, removed>>

NextReprocess ==
    \/ ProcessDocumentBackground
    \/ DeleteDocumentEndpoint
    \/ ReprocessDocument

\* the documents with the requests to reprocess them
SpecReprocess == InitIndex /\ [][NextReprocess]_vars

\* C30: a reprocess request that is answered with an error leaves the
\* status of the document as it was: a document that was "ready" or "error"
\* before the request has the same status after it.
C30_RejectedReprocessKeepsStatus ==
    (/\ response.op = "reprocess_document"
     /\ response.status >= 400
     /\ response.status_before \in {"ready", "error"})
        => documents[response.document_id].status = response.status_before

====
